---- MODULE Spec2Model ----
(***************************************************************************)
(* Comics-sales valuation and decision engine.                             *)
(*                                                                         *)
(* Units.  Money is an integer number of cents.  Rates are integer         *)
(* percents (0.13 -> 13).  Grades are integer tenths (8.0 -> 80).  Match   *)
(* scores are integer hundredths.  The slab multiplier is an integer       *)
(* number of twentieths (1.35 -> 27).  Intermediate amounts carry their    *)
(* scale in the name of the definition: X100 is X in 1/100 cent, X2000 is  *)
(* X in 1/2000 cent.  Arithmetic is exact decimal arithmetic; round(x, 2)  *)
(* is round-half-even to the cent.                                         *)
(***************************************************************************)
EXTENDS Integers, Sequences, FiniteSets, TLC

\* Python None / SQL NULL for an optional non-negative number.
None == -1
\* Python None / SQL NULL for an optional string.
NoneStr == "None"

(***************************************************************************)
(* Bounds of the model.                                                    *)
(***************************************************************************)
\* active_count ranges over 0..MaxActiveCount
MaxActiveCount == 8
\* number of inventory items
NumItems == 3
\* number of rows market_comps may hold
MaxComps == 3
\* number of rows market_comps holds when a decision-queue request arrives
MaxQueueComps == 2
\* number of decided rows a decision-queue request ranks
MaxRankLen == 3
\* number of sold prices handed to compute_trend
MaxTrendLen == 10
\* number of deduplicated sold comps of the item whose price is estimated
MaxEstRows == 3
\* listings the marketplace returns during one ingestion run
MaxFetched == 3

\* LIMIT of the sold-comps query of the aggregator
SOLD_LIMIT == 160
\* LIMIT of the active-comps query of the aggregator
ACTIVE_LIMIT == 20

(***************************************************************************)
(* Numeric helpers.                                                        *)
(***************************************************************************)
\* round(n / d) to the nearest integer, ties to even; d > 0
RoundDiv(n, d) ==
  LET q == n \div d
      rem == n % d
  IN  IF 2 * rem < d THEN q
      ELSE IF 2 * rem > d THEN q + 1
      ELSE IF q % 2 = 0 THEN q ELSE q + 1

\* round(n * k / d), ties to even, without forming n * k; d > 0, k > 0
MulDivRound(n, k, d) == (n \div d) * k + RoundDiv((n % d) * k, d)

Max2(a, b) == IF a >= b THEN a ELSE b
Min2(a, b) == IF a <= b THEN a ELSE b

(***************************************************************************)
(* app/main.py: defaults and the decision engine.                          *)
(***************************************************************************)
DEFAULTS ==
  [ platform_fee_rate     |-> 13,
    avg_ship_cost         |-> 1500,
    cgc_grading_cost      |-> 4500,
    cgc_ship_insure_cost  |-> 2000,
    time_penalty_rate     |-> 5,
    slab_lift_min_dollars |-> 15000,
    slab_lift_min_pct     |-> 20 ]

\* estimate_slab_multiplier without the qualified test
estimate_slab_multiplier_q_mut(grade_numeric, qualified_flag) ==
  LET g == IF grade_numeric = None THEN 0 ELSE grade_numeric
  IN  IF g >= 80 THEN 27
      ELSE IF g >= 60 THEN 25
      ELSE IF g >= 40 THEN 23
      ELSE 21

\* estimate_slab_multiplier with the top tier starting above 8.0 instead of at 8.0
estimate_slab_multiplier_mut(grade_numeric, qualified_flag) ==
  IF qualified_flag /= 0 THEN 20
  ELSE LET g == IF grade_numeric = None THEN 0 ELSE grade_numeric
       IN  IF g > 80 THEN 27
           ELSE IF g >= 60 THEN 25
           ELSE IF g >= 40 THEN 23
           ELSE 21

\* slab multiplier in twentieths: 1.0 -> 20, 1.35 -> 27, 1.25 -> 25, 1.15 -> 23, 1.05 -> 21
estimate_slab_multiplier(grade_numeric, qualified_flag) ==
  IF qualified_flag /= 0 THEN 20
  ELSE LET g == IF grade_numeric = None THEN 0 ELSE grade_numeric
       IN  IF g >= 80 THEN 27
           ELSE IF g >= 60 THEN 25
           ELSE IF g >= 40 THEN 23
           ELSE 21

recommend_channel(market_price) ==
  LET p == IF market_price = None THEN 0 ELSE market_price
  IN  IF p >= 250000 THEN "heritage_or_major_auction"
      ELSE IF p >= 50000 THEN "ebay_fixed_price_offers"
      ELSE IF p >= 15000 THEN "ebay_or_facebook_groups"
      ELSE "ebay"

\* dynamic_ask_multiplier with the $1000 tier starting above $1000 instead of at $1000
dynamic_ask_multiplier_mut(r) ==
  LET market == IF r.market_price = None THEN 0 ELSE r.market_price
      active_count == IF r.active_count = None THEN 0 ELSE r.active_count
      m1 == IF r.grade_class = "slabbed" THEN 108 ELSE 105
      m2 == IF r.confidence = "high" THEN m1 + 2
            ELSE IF r.confidence = "low" THEN m1 - 2
            ELSE m1
      m3 == IF market > 100000 THEN m2 + 3
            ELSE IF market >= 30000 THEN m2 + 1
            ELSE m2
      m4 == IF active_count >= 8 THEN m3 + 1
            ELSE IF active_count = 0 THEN m3 - 1
            ELSE m3
  IN  Max2(103, Min2(118, m4))

\* ask multiplier in percent: 1.05 -> 105
dynamic_ask_multiplier(r) ==
  LET market == IF r.market_price = None THEN 0 ELSE r.market_price
      conf == r.confidence
      grade_class == r.grade_class
      active_count == IF r.active_count = None THEN 0 ELSE r.active_count
      m0 == 105
      m1 == IF grade_class = "slabbed" THEN m0 + 3 ELSE m0
      m2 == IF conf = "high" THEN m1 + 2
            ELSE IF conf = "low" THEN m1 - 2
            ELSE m1
      m3 == IF market >= 100000 THEN m2 + 3
            ELSE IF market >= 30000 THEN m2 + 1
            ELSE m2
      m4 == IF active_count >= 8 THEN m3 + 1
            ELSE IF active_count = 0 THEN m3 - 1
            ELSE m3
  IN  Max2(103, Min2(118, m4))

\* anchor_price_of with 1.1 in place of 1.2 below $500
anchor_price_of_low_mut(r) ==
  LET market == r.market_price
      truthy == market /= None /\ market /= 0
      anchor_mult == IF (IF market = None THEN 0 ELSE market) >= 50000 THEN 130 ELSE 110
      model_anchor == IF truthy THEN RoundDiv(market * anchor_mult, 100) ELSE None
      active_anchor == r.active_anchor_price
  IN  IF active_anchor /= None /\ model_anchor /= None
        THEN Max2(model_anchor, active_anchor)
      ELSE IF active_anchor /= None THEN active_anchor
      ELSE model_anchor

\* anchor_price_of that keeps the model anchor whenever there is one
anchor_price_of_mut(r) ==
  LET market == r.market_price
      anchor_mult == IF (IF market = None THEN 0 ELSE market) >= 50000 THEN 130 ELSE 120
      model_anchor == IF market /= None /\ market /= 0
                        THEN RoundDiv(market * anchor_mult, 100) ELSE None
  IN  IF model_anchor /= None THEN model_anchor ELSE r.active_anchor_price

\* lines 388-394 and 433-440: the anchor price of a decision
anchor_price_of(r) ==
  LET market == r.market_price
      truthy == market /= None /\ market /= 0
      anchor_mult == IF (IF market = None THEN 0 ELSE market) >= 50000 THEN 130 ELSE 120
      model_anchor == IF truthy THEN RoundDiv(market * anchor_mult, 100) ELSE None
      active_anchor == r.active_anchor_price
  IN  IF active_anchor /= None /\ model_anchor /= None
        THEN Max2(model_anchor, active_anchor)
      ELSE IF active_anchor /= None THEN active_anchor
      ELSE model_anchor

\* lines 397 and 442
target_price_of(r) ==
  IF r.market_price /= None /\ r.market_price /= 0
    THEN RoundDiv(r.market_price * dynamic_ask_multiplier(r), 100)
    ELSE None

\* floor_price_of with 90% in place of 88%
floor_price_of_mut(r) ==
  IF r.market_price /= None /\ r.market_price /= 0
    THEN RoundDiv(r.market_price * (IF r.confidence = "high" THEN 92 ELSE 90), 100)
    ELSE None

\* lines 398 and 443
floor_price_of(r) ==
  IF r.market_price /= None /\ r.market_price /= 0
    THEN RoundDiv(r.market_price * (IF r.confidence = "high" THEN 92 ELSE 88), 100)
    ELSE None

\* line 409, in 1/100 cent
net_raw100(r, a) ==
  r.market_price * (100 - a.platform_fee_rate) - a.avg_ship_cost * 100

\* line 411, in 1/20 cent
expected_slab_gross20(r) ==
  r.market_price * estimate_slab_multiplier(r.grade_numeric, r.qualified_flag)

\* lines 412-418, in 1/2000 cent
net_slabbed2000(r, a) ==
  expected_slab_gross20(r) * (100 - a.platform_fee_rate)
    - a.avg_ship_cost * 2000
    - a.cgc_grading_cost * 2000
    - a.cgc_ship_insure_cost * 2000
    - expected_slab_gross20(r) * a.time_penalty_rate

\* line 420, in 1/2000 cent
slab_lift2000(r, a) == net_slabbed2000(r, a) - 20 * net_raw100(r, a)

\* line 421 compared with a percentage p: slab_lift_pct >= p / 100.
\* slab_lift / net_raw = slab_lift2000 / (20 * net_raw100).
slab_lift_pct_ge(r, a, p) ==
  IF net_raw100(r, a) > 0
    THEN 5 * slab_lift2000(r, a) >= p * net_raw100(r, a)
    ELSE 0 >= p

\* line 449: round(slab_lift_pct * 100, 1), in tenths of a percent
slab_lift_pct_out(r, a) ==
  IF net_raw100(r, a) > 0
    THEN MulDivRound(slab_lift2000(r, a), 50, net_raw100(r, a))
    ELSE 0

\* raw_action with either threshold sufficient instead of both required
raw_action_mut(r, a) ==
  IF slab_lift2000(r, a) >= a.slab_lift_min_dollars * 2000
     \/ slab_lift_pct_ge(r, a, a.slab_lift_min_pct)
    THEN "slab_candidate"
  ELSE IF r.grade_class = "raw_no_community" THEN "get_community_grade"
  ELSE "sell_raw_now"

\* lines 423-431
raw_action(r, a) ==
  IF slab_lift2000(r, a) >= a.slab_lift_min_dollars * 2000
     /\ slab_lift_pct_ge(r, a, a.slab_lift_min_pct)
    THEN "slab_candidate"
  ELSE IF r.grade_class = "raw_no_community" THEN "get_community_grade"
  ELSE "sell_raw_now"

\* lines 385-402: the dict returned for a slabbed item
slabbed_decision(r) ==
  [ target_price |-> target_price_of(r),
    floor_price  |-> floor_price_of(r),
    anchor_price |-> anchor_price_of(r),
    channel_hint |-> recommend_channel(r.market_price),
    action       |-> "list_now_slabbed" ]

\* unknown_market_decision without the raw_no_community case
unknown_market_decision_mut(r) ==
  [channel_hint |-> "ebay_fixed_price_offers", action |-> "needs_comps"]

\* lines 404-407: the dict returned when market is None
unknown_market_decision(r) ==
  IF r.grade_class = "raw_no_community"
    THEN [channel_hint |-> "prep_community_then_ebay", action |-> "get_community_grade"]
    ELSE [channel_hint |-> "ebay_fixed_price_offers", action |-> "needs_comps"]

\* raw_decision with the guard of line 421 written net_raw >= 0: a net_raw of 0
\* raises ZeroDivisionError and no dict is returned
raw_decision_mut(r, a) ==
  IF net_raw100(r, a) = 0 THEN [error |-> "ZeroDivisionError"]
  ELSE
  [ net_raw       |-> RoundDiv(net_raw100(r, a), 100),
    net_slabbed   |-> RoundDiv(net_slabbed2000(r, a), 2000),
    slab_lift     |-> RoundDiv(slab_lift2000(r, a), 2000),
    slab_lift_pct |-> slab_lift_pct_out(r, a),
    anchor_price  |-> anchor_price_of(r),
    target_price  |-> target_price_of(r),
    floor_price   |-> floor_price_of(r),
    channel_hint  |-> recommend_channel(r.market_price),
    action        |-> raw_action(r, a) ]

\* lines 409-455: the dict returned for a raw item with a market price
raw_decision(r, a) ==
  [ net_raw       |-> RoundDiv(net_raw100(r, a), 100),
    net_slabbed   |-> RoundDiv(net_slabbed2000(r, a), 2000),
    slab_lift     |-> RoundDiv(slab_lift2000(r, a), 2000),
    slab_lift_pct |-> slab_lift_pct_out(r, a),
    anchor_price  |-> anchor_price_of(r),
    target_price  |-> target_price_of(r),
    floor_price   |-> floor_price_of(r),
    channel_hint  |-> recommend_channel(r.market_price),
    action        |-> raw_action(r, a) ]

\* decision_for_row with the sold test placed after the slabbed branch
decision_for_row_mut(r, a) ==
  IF r.grade_class = "slabbed" THEN slabbed_decision(r)
  ELSE IF r.status = "sold" THEN [action |-> "already_sold"]
  ELSE IF r.market_price = None THEN unknown_market_decision(r)
  ELSE raw_decision(r, a)

\* The returned dict is a record whose domain is the set of keys present.
decision_for_row(r, a) ==
  IF r.status = "sold" THEN [action |-> "already_sold"]
  ELSE IF r.grade_class = "slabbed" THEN slabbed_decision(r)
  ELSE IF r.market_price = None THEN unknown_market_decision(r)
  ELSE raw_decision(r, a)

(***************************************************************************)
(* The store: comics, market_comps, price_suggestions and                  *)
(* price_suggestion_evidence.                                              *)
(***************************************************************************)
ItemIds == 1..NumItems

\* The inventory: copies of one issue in the four shapes the engine
\* distinguishes.  1: slabbed 8.5; 2: raw with community grading, 9.0,
\* qualified; 3: raw without community grading and without a grade; 4: a sold
\* slabbed copy.  Further ids repeat the four shapes.
ComicRow(i) ==
  LET k == ((i - 1) % 4) + 1
  IN  [ id             |-> i,
        title          |-> "Amazing Spider-Man",
        issue          |-> "20",
        status         |-> IF k = 4 THEN "sold" ELSE IF k = 2 THEN "drafted" ELSE "unlisted",
        sold_price     |-> IF k = 4 THEN 90000 ELSE None,
        cgc_cert       |-> IF k \in {1, 4} THEN "0123456001" ELSE "",
        community_url  |-> IF k = 2 THEN "https://pgm.example/asm20" ELSE "",
        grade_numeric  |-> IF k = 1 THEN 85 ELSE IF k = 2 THEN 90 ELSE IF k = 4 THEN 80 ELSE None,
        qualified_flag |-> IF k = 2 THEN 1 ELSE 0 ]

comics == [i \in ItemIds |-> ComicRow(i)]

\* grade_class_sql()
grade_class_sql(c) ==
  IF c.cgc_cert /= "" THEN "slabbed"
  ELSE IF c.community_url /= "" THEN "raw_community"
  ELSE "raw_no_community"

\* scripts/price_suggestions.py
confidence_from_count(n) ==
  IF n >= 8 THEN "high" ELSE IF n >= 3 THEN "medium" ELSE "low"

\* _norm_title on the listing titles of the model: lower-case, every run of
\* characters outside [a-z0-9 ] becomes one space, trimmed
norm_title(t) ==
  CASE t = "ASM 20 CGC 8.0"     -> "asm 20 cgc 8 0"
    [] t = "ASM 20 CGC 9.0"     -> "asm 20 cgc 9 0"
    [] t = "ASM 20"             -> "asm 20"
    [] t = "Amazing Spider-Man" -> "amazing spider man"
    [] OTHER                    -> t

\* ORDER BY COALESCE(match_score, 0) DESC, sold_date DESC; NULL dates sort
\* last in descending order.  Rows that tie on both keys come out in rowid
\* order, ascending or descending according to the scan the engine uses.
coalesce0(x) == IF x = None THEN 0 ELSE x

\* OrderedBefore with the lower score first
OrderedBefore_mut(a, b, ties) ==
  \/ coalesce0(a.match_score) < coalesce0(b.match_score)
  \/ /\ coalesce0(a.match_score) = coalesce0(b.match_score)
     /\ a.sold_date > b.sold_date
  \/ /\ coalesce0(a.match_score) = coalesce0(b.match_score)
     /\ a.sold_date = b.sold_date
     /\ IF ties = "rowid_asc" THEN a.id < b.id ELSE a.id > b.id

OrderedBefore(a, b, ties) ==
  \/ coalesce0(a.match_score) > coalesce0(b.match_score)
  \/ /\ coalesce0(a.match_score) = coalesce0(b.match_score)
     /\ a.sold_date > b.sold_date
  \/ /\ coalesce0(a.match_score) = coalesce0(b.match_score)
     /\ a.sold_date = b.sold_date
     /\ IF ties = "rowid_asc" THEN a.id < b.id ELSE a.id > b.id

\* ORDER BY COALESCE(match_score, 0) DESC alone (the active-listing query)
ScoreBefore(a, b, ties) ==
  \/ coalesce0(a.match_score) > coalesce0(b.match_score)
  \/ /\ coalesce0(a.match_score) = coalesce0(b.match_score)
     /\ IF ties = "rowid_asc" THEN a.id < b.id ELSE a.id > b.id

RECURSIVE OrderSold(_, _)
OrderSold(S, ties) ==
  IF S = {} THEN <<>>
  ELSE LET first == CHOOSE a \in S : \A b \in S \ {a} : OrderedBefore(a, b, ties)
       IN  <<first>> \o OrderSold(S \ {first}, ties)

RECURSIVE OrderActive(_, _)
OrderActive(S, ties) ==
  IF S = {} THEN <<>>
  ELSE LET first == CHOOSE a \in S : \A b \in S \ {a} : ScoreBefore(a, b, ties)
       IN  <<first>> \o OrderActive(S \ {first}, ties)

Limit(seq, n) == SubSeq(seq, 1, Min2(Len(seq), n))

TableRows(mc) == {mc[k] : k \in 1..Len(mc)}

\* lines 124-134: the sold comps of one item
select_sold(mc, cid, ties) ==
  Limit(OrderSold({r \in TableRows(mc) :
                     r.comic_id = cid /\ r.listing_type = "sold" /\ r.price /= None}, ties),
        SOLD_LIMIT)

\* lines 147-157: the active comps of one item
select_active(mc, cid, ties) ==
  Limit(OrderActive({r \in TableRows(mc) :
                       r.comic_id = cid /\ r.listing_type = "active" /\ r.price /= None}, ties),
        ACTIVE_LIMIT)

dedupe_key(r) == <<norm_title(r.title), r.price, r.sold_date>>

RECURSIVE dedupe_from(_, _, _)
dedupe_from(rows, k, seen) ==
  IF k > Len(rows) THEN <<>>
  ELSE IF dedupe_key(rows[k]) \in seen THEN dedupe_from(rows, k + 1, seen)
  ELSE <<rows[k]>> \o dedupe_from(rows, k + 1, seen \cup {dedupe_key(rows[k])})

dedupe_comp_rows(rows) == dedupe_from(rows, 1, {})

\* sorted(vals)
RECURSIVE SortAsc(_)
SortAsc(vals) ==
  IF Len(vals) = 0 THEN <<>>
  ELSE LET k == CHOOSE i \in 1..Len(vals) : \A j \in 1..Len(vals) : vals[i] <= vals[j]
           rest == [i \in 1..(Len(vals) - 1) |-> IF i < k THEN vals[i] ELSE vals[i + 1]]
       IN  <<vals[k]>> \o SortAsc(rest)

\* median_val and statistics.median, rounded to the cent; vals is not empty
median_val(vals) ==
  LET s == SortAsc(vals)
      n == Len(s)
      m == n \div 2
  IN  IF n % 2 = 1 THEN s[m + 1] ELSE RoundDiv(s[m] + s[m + 1], 2)

SeqMax(vals) == CHOOSE v \in {vals[i] : i \in 1..Len(vals)} :
                  \A j \in 1..Len(vals) : vals[j] <= v

(***************************************************************************)
(* grade_trend_price.  math.exp and math.log are computed in binary fixed  *)
(* point (1/1024 of an octave) with Mitchell's piecewise-linear logarithm  *)
(* and its inverse; the kernel weights are taken relative to the nearest   *)
(* point (a common factor of all weights cancels in lsum / wsum) and       *)
(* scaled by 4096.                                                         *)
(***************************************************************************)
RECURSIVE Pow2(_)
Pow2(n) == IF n <= 0 THEN 1 ELSE 2 * Pow2(n - 1)

RECURSIVE FloorLog2(_)
FloorLog2(p) == IF p < 2 THEN 0 ELSE 1 + FloorLog2(p \div 2)

\* 1024 * log2(p), p >= 1
Log2Fix(p) ==
  LET n == FloorLog2(p)
  IN  n * 1024 + ((p - Pow2(n)) * 1024) \div Pow2(n)

\* 2 ^ (y / 1024), y >= 0
Exp2Fix(y) ==
  LET n == y \div 1024
      f == y % 1024
  IN  (Pow2(n) * (1024 + f)) \div 1024

\* 4096 * 2 ^ (-x / 1024), x >= 0
KernelWeight(x) ==
  LET n == x \div 1024
      f == x % 1024
  IN  IF n > 13 THEN 0 ELSE (2 * (2048 - f)) \div Pow2(n)

\* 1024 / (10 * bw * ln 2) for bw = 0.22, 0.35, 0.60: octaves of decay per tenth of a grade
KernelRate(tg) == IF tg >= 90 THEN 672 ELSE IF tg >= 80 THEN 422 ELSE 246

AbsDiff(a, b) == IF a >= b THEN a - b ELSE b - a

is_certified(r) == r.grade_company \in {"CGC", "CBCS"}

RECURSIVE SumSeq(_)
SumSeq(vals) == IF Len(vals) = 0 THEN 0 ELSE Head(vals) + SumSeq(Tail(vals))

\* grade_trend_price counting a comp as usable only from $500 upward
grade_trend_price_floor_mut(rows, target_grade, is_slabbed_book) ==
  LET certified == SelectSeq(rows, is_certified)
      use_rows == IF is_slabbed_book /\ Len(certified) >= 3 THEN certified ELSE rows
      Usable(r) == r.grade_numeric /= None /\ r.price /= None /\ r.price >= 50000
      all_pts == SelectSeq(use_rows, Usable)
  IN  IF target_grade = None \/ Len(all_pts) < 2 THEN None
      ELSE
        LET tg == target_grade
            IsLocal(r) == AbsDiff(r.grade_numeric, tg) <= 15
            local == SelectSeq(all_pts, IsLocal)
            pts == IF Len(local) >= 3 THEN local ELSE all_pts
            dist == [i \in 1..Len(pts) |-> AbsDiff(pts[i].grade_numeric, tg) * KernelRate(tg)]
            nearest == CHOOSE d \in {dist[i] : i \in 1..Len(pts)} :
                         \A j \in 1..Len(pts) : d <= dist[j]
            w == [i \in 1..Len(pts) |-> KernelWeight(dist[i] - nearest)]
            wsum == SumSeq(w)
            lsum == SumSeq([i \in 1..Len(pts) |-> w[i] * Log2Fix(pts[i].price)])
        IN  IF wsum <= 0 THEN None ELSE Exp2Fix(lsum \div wsum)

\* grade_trend_price fitting a single point
grade_trend_price_mut(rows, target_grade, is_slabbed_book) ==
  LET certified == SelectSeq(rows, is_certified)
      use_rows == IF is_slabbed_book /\ Len(certified) >= 3 THEN certified ELSE rows
      Usable(r) == r.grade_numeric /= None /\ r.price /= None /\ r.price > 0
      all_pts == SelectSeq(use_rows, Usable)
  IN  IF target_grade = None \/ Len(all_pts) < 1 THEN None
      ELSE
        LET tg == target_grade
            IsLocal(r) == AbsDiff(r.grade_numeric, tg) <= 15
            local == SelectSeq(all_pts, IsLocal)
            pts == IF Len(local) >= 3 THEN local ELSE all_pts
            dist == [i \in 1..Len(pts) |-> AbsDiff(pts[i].grade_numeric, tg) * KernelRate(tg)]
            nearest == CHOOSE d \in {dist[i] : i \in 1..Len(pts)} :
                         \A j \in 1..Len(pts) : d <= dist[j]
            w == [i \in 1..Len(pts) |-> KernelWeight(dist[i] - nearest)]
            wsum == SumSeq(w)
            lsum == SumSeq([i \in 1..Len(pts) |-> w[i] * Log2Fix(pts[i].price)])
        IN  IF wsum <= 0 THEN None ELSE Exp2Fix(lsum \div wsum)

\* returns the fitted price in cents, or None
grade_trend_price(rows, target_grade, is_slabbed_book) ==
  LET certified == SelectSeq(rows, is_certified)
      use_rows == IF is_slabbed_book /\ Len(certified) >= 3 THEN certified ELSE rows
      Usable(r) == r.grade_numeric /= None /\ r.price /= None /\ r.price > 0
      all_pts == SelectSeq(use_rows, Usable)
  IN  IF target_grade = None \/ Len(all_pts) < 2 THEN None
      ELSE
        LET tg == target_grade
            IsLocal(r) == AbsDiff(r.grade_numeric, tg) <= 15
            local == SelectSeq(all_pts, IsLocal)
            pts == IF Len(local) >= 3 THEN local ELSE all_pts
            dist == [i \in 1..Len(pts) |-> AbsDiff(pts[i].grade_numeric, tg) * KernelRate(tg)]
            nearest == CHOOSE d \in {dist[i] : i \in 1..Len(pts)} :
                         \A j \in 1..Len(pts) : d <= dist[j]
            w == [i \in 1..Len(pts) |-> KernelWeight(dist[i] - nearest)]
            wsum == SumSeq(w)
            lsum == SumSeq([i \in 1..Len(pts) |-> w[i] * Log2Fix(pts[i].price)])
        IN  IF wsum <= 0 THEN None ELSE Exp2Fix(lsum \div wsum)

(***************************************************************************)
(* scripts/price_suggestions.py main(): one item, then the whole run.      *)
(***************************************************************************)
PositivePrice(r) == r.price /= None /\ r.price > 0

PricesOf(rows) == [i \in 1..Len(rows) |-> rows[i].price]

\* the guardrail keeping 70% of the higher-grade sale
high_grade_guardrail_mut(u, rows, tgt_grade) ==
  IF tgt_grade /= None /\ tgt_grade >= 90
    THEN LET IsHigher(r) == /\ r.grade_numeric /= None
                            /\ r.grade_numeric >= tgt_grade + 1
                            /\ r.grade_numeric <= tgt_grade + 4
                            /\ r.price > 0
             higher == PricesOf(SelectSeq(rows, IsHigher))
         IN  IF Len(higher) > 0 THEN Max2(u, RoundDiv(SeqMax(higher) * 70, 100)) ELSE u
    ELSE u

\* lines 169-174
high_grade_guardrail(u, rows, tgt_grade) ==
  IF tgt_grade /= None /\ tgt_grade >= 90
    THEN LET IsHigher(r) == /\ r.grade_numeric /= None
                            /\ r.grade_numeric >= tgt_grade + 1
                            /\ r.grade_numeric <= tgt_grade + 4
                            /\ r.price > 0
             higher == PricesOf(SelectSeq(rows, IsHigher))
         IN  IF Len(higher) > 0 THEN Max2(u, RoundDiv(SeqMax(higher) * 80, 100)) ELSE u
    ELSE u

\* lines 178-195: grade -> best certified sale at that grade
slab_points(rows) ==
  LET IsSlabPt(r) == r.price > 0 /\ is_certified(r) /\ r.grade_numeric /= None
      slab == SelectSeq(rows, IsSlabPt)
      grades == {slab[i].grade_numeric : i \in 1..Len(slab)}
  IN  [g \in grades |->
         CHOOSE v \in {slab[i].price : i \in {j \in 1..Len(slab) : slab[j].grade_numeric = g}} :
           \A i \in 1..Len(slab) : slab[i].grade_numeric = g => slab[i].price <= v]

\* lines 197-207
interpolation_floor(u, pts, tg) ==
  LET below == {g \in DOMAIN pts : g <= tg}
      above == {g \in DOMAIN pts : g >= tg}
  IN  IF below /= {} /\ above /= {}
        THEN LET gb == CHOOSE g \in below : \A h \in below : h <= g
                 ga == CHOOSE g \in above : \A h \in above : g <= h
             IN  IF ga > gb
                   THEN Max2(u, RoundDiv(pts[gb] * (ga - gb) + (tg - gb) * (pts[ga] - pts[gb]),
                                         ga - gb))
                   ELSE u
        ELSE u

RECURSIVE SetToSeq(_)
SetToSeq(S) ==
  IF S = {} THEN <<>>
  ELSE LET x == CHOOSE y \in S : \A z \in S : y <= z
       IN  <<x>> \o SetToSeq(S \ {x})

\* lines 209-213
near_median_floor(u, pts, tg) ==
  LET near == {g \in DOMAIN pts : AbsDiff(g, tg) <= 5}
      gs == SetToSeq(near)
      slab_near == [i \in 1..Len(gs) |-> pts[gs[i]]]
  IN  IF Len(slab_near) >= 2 THEN Max2(u, median_val(slab_near)) ELSE u

\* the raw floor without the 5% premium
raw_floor_mut(u, rows, tg) ==
  LET IsRawNear(r) == /\ r.price > 0
                      /\ r.grade_company \in {NoneStr, ""}
                      /\ r.grade_numeric /= None
                      /\ AbsDiff(r.grade_numeric, tg) <= 5
      raw_near == PricesOf(SelectSeq(rows, IsRawNear))
  IN  IF Len(raw_near) > 0 THEN Max2(u, RoundDiv(SeqMax(raw_near) * 100, 100)) ELSE u

\* lines 215-224
raw_floor(u, rows, tg) ==
  LET IsRawNear(r) == /\ r.price > 0
                      /\ r.grade_company \in {NoneStr, ""}
                      /\ r.grade_numeric /= None
                      /\ AbsDiff(r.grade_numeric, tg) <= 5
      raw_near == PricesOf(SelectSeq(rows, IsRawNear))
  IN  IF Len(raw_near) > 0 THEN Max2(u, RoundDiv(SeqMax(raw_near) * 105, 100)) ELSE u

\* lines 176-224
slabbed_guardrail(u, rows, tgt_grade, is_slabbed_book) ==
  IF is_slabbed_book /\ tgt_grade /= None
    THEN LET pts == slab_points(rows)
             u1 == interpolation_floor(u, pts, tgt_grade)
             u2 == near_median_floor(u1, pts, tgt_grade)
         IN  raw_floor(u2, rows, tgt_grade)
    ELSE u

\* lines 160-167: universal_market before the guardrails
base_market_of(rows, prices, tgt_grade, is_slabbed_book) ==
  LET trend_at_grade == grade_trend_price(rows, tgt_grade, is_slabbed_book)
  IN  IF trend_at_grade /= None
        THEN RoundDiv(trend_at_grade * 105, 100)
        ELSE median_val(prices)

\* lines 160-224
universal_market_of(rows, prices, tgt_grade, is_slabbed_book) ==
  LET u0 == base_market_of(rows, prices, tgt_grade, is_slabbed_book)
      u1 == high_grade_guardrail(u0, rows, tgt_grade)
  IN  slabbed_guardrail(u1, rows, tgt_grade, is_slabbed_book)

\* lines 226-271: the row written for the item
valuation_row(c, universal_market, n_prices, active_prices) ==
  LET qm == IF c.qualified_flag /= 0 THEN 60 ELSE 100
  IN  [ comic_id               |-> c.id,
        quick_sale             |-> RoundDiv(universal_market * 90 * qm, 10000),
        market_price           |-> RoundDiv(universal_market * qm, 100),
        premium_price          |-> RoundDiv(universal_market * 115 * qm, 10000),
        universal_market_price |-> universal_market,
        qualified_market_price |-> RoundDiv(universal_market * 60, 100),
        active_anchor_price    |-> IF Len(active_prices) > 0 THEN median_val(active_prices) ELSE None,
        active_count           |-> Len(active_prices),
        confidence             |-> confidence_from_count(n_prices),
        basis_count            |-> n_prices ]

\* delete_item_rows without the DELETE FROM price_suggestions
delete_item_rows_mut(db, cid) ==
  [ ps |-> db.ps,
    ev |-> {e \in db.ev : e.comic_id /= cid} ]

\* lines 143-144: DELETE the item's evidence and valuation
delete_item_rows(db, cid) ==
  [ ps |-> {p \in db.ps : p.comic_id /= cid},
    ev |-> {e \in db.ev : e.comic_id /= cid} ]

\* upsert_valuation with basis_count added to the stored count on conflict
upsert_valuation_mut(ps, v) ==
  LET old == {p \in ps : p.comic_id = v.comic_id}
  IN  (ps \ old)
        \cup (IF old = {} THEN {v}
              ELSE {[v EXCEPT !.basis_count = v.basis_count + p.basis_count] : p \in old})

\* lines 238-271: INSERT ... ON CONFLICT(comic_id) DO UPDATE
upsert_valuation(ps, v) ==
  {p \in ps : p.comic_id /= v.comic_id} \cup {v}

\* replace_evidence with a DELETE that has no WHERE comic_id = ?
replace_evidence_mut(ev, cid, rows) ==
  {[comic_id |-> cid, comp_id |-> rows[k].id, rank |-> k] : k \in 1..Len(rows)}

\* lines 273-281: DELETE the item's evidence, then INSERT OR IGNORE rank 1..n
replace_evidence(ev, cid, rows) ==
  {e \in ev : e.comic_id /= cid}
    \cup {[comic_id |-> cid, comp_id |-> rows[k].id, rank |-> k] : k \in 1..Len(rows)}

\* lines 123-283: the body of the loop for one item, on the tables db = [ps, ev]
aggregate_item(c, mc, db, ties) ==
  LET rows == dedupe_comp_rows(select_sold(mc, c.id, ties))
      is_slabbed_book == c.cgc_cert /= ""
      tgt_grade == c.grade_numeric
      prices == PricesOf(SelectSeq(rows, PositivePrice))
  IN  IF Len(prices) = 0 THEN delete_item_rows(db, c.id)
      ELSE
        LET active_prices == PricesOf(SelectSeq(select_active(mc, c.id, ties), PositivePrice))
            universal_market == universal_market_of(rows, prices, tgt_grade, is_slabbed_book)
        IN  [ ps |-> upsert_valuation(db.ps,
                       valuation_row(c, universal_market, Len(prices), active_prices)),
              ev |-> replace_evidence(db.ev, c.id, rows) ]

\* lines 120-285: all comics in the order of the SELECT, then one commit
RECURSIVE aggregate_from(_, _, _, _)
aggregate_from(i, mc, db, ties) ==
  IF i > NumItems THEN db
  ELSE aggregate_from(i + 1, mc, aggregate_item(comics[i], mc, db, ties), ties)

price_suggestions_main(mc, db, ties) == aggregate_from(1, mc, db, ties)

(***************************************************************************)
(* scripts/fetch_ebay_comps.py: scoring and storing of listings.           *)
(***************************************************************************)
\* similarity_score crediting 0.25 instead of 0.15 when both grades are absent
similarity_score_credit_mut(target_grade, target_is_slabbed, comp) ==
  LET s1 == IF target_grade /= None /\ comp.grade_numeric /= None
              THEN Max2(0, 65 - Min2(AbsDiff(target_grade, comp.grade_numeric), 30) * 2)
            ELSE IF target_grade = None /\ comp.grade_numeric = None THEN 25
            ELSE 0
      comp_slabbed == IF comp.grade_company /= NoneStr THEN 1 ELSE 0
      s2 == IF target_is_slabbed = comp_slabbed THEN s1 + 25
            ELSE IF target_is_slabbed = 1 /\ comp.is_raw = 1 THEN s1 - 10
            ELSE s1
      s3 == IF comp.is_signed = 1 THEN s2 - 10 ELSE s2
  IN  Max2(0, Min2(100, s3))

\* similarity score in hundredths
similarity_score(target_grade, target_is_slabbed, comp) ==
  LET s1 == IF target_grade /= None /\ comp.grade_numeric /= None
              THEN Max2(0, 65 - Min2(AbsDiff(target_grade, comp.grade_numeric), 30) * 2)
            ELSE IF target_grade = None /\ comp.grade_numeric = None THEN 15
            ELSE 0
      comp_slabbed == IF comp.grade_company /= NoneStr THEN 1 ELSE 0
      s2 == IF target_is_slabbed = comp_slabbed THEN s1 + 25
            ELSE IF target_is_slabbed = 1 /\ comp.is_raw = 1 THEN s1 - 10
            ELSE s1
      s3 == IF comp.is_signed = 1 THEN s2 - 10 ELSE s2
  IN  Max2(0, Min2(100, s3))

\* Listings the marketplace returns, with the signals parse_grade_signals
\* reads from their titles: two certified sales a grade apart, a sale whose
\* price is 0.00, and an active certified listing.
Listings ==
  { [title |-> "ASM 20 CGC 8.0", listing_type |-> "sold", price |-> 40000, sold_date |-> 2,
     grade_numeric |-> 80, grade_company |-> "CGC", is_raw |-> 0, is_signed |-> 0],
    [title |-> "ASM 20 CGC 9.0", listing_type |-> "sold", price |-> 80000, sold_date |-> 2,
     grade_numeric |-> 90, grade_company |-> "CGC", is_raw |-> 0, is_signed |-> 0],
    [title |-> "ASM 20", listing_type |-> "sold", price |-> 0, sold_date |-> 1,
     grade_numeric |-> None, grade_company |-> NoneStr, is_raw |-> 0, is_signed |-> 0],
    [title |-> "ASM 20 CGC 8.0", listing_type |-> "active", price |-> 50000, sold_date |-> None,
     grade_numeric |-> 80, grade_company |-> "CGC", is_raw |-> 0, is_signed |-> 0] }

\* rows of a sold-comps CSV export; they carry the series title and no issue
CsvRows ==
  { [title |-> "Amazing Spider-Man", price |-> 30000, sold_date |-> 1,
     grade_numeric |-> None, grade_company |-> NoneStr] }

\* --min-score of live ingestion (0.45) and of the backfill batch (0.25)
MinScores == {45, 25}

\* get_targets(): the items ingestion fetches comps for
is_target(c) == c.status \in {"unlisted", "drafted"} /\ c.sold_price = None

\* the market_comps row store_item inserts
comp_row(id, t, item, score) ==
  [ id            |-> id,
    comic_id      |-> t.id,
    listing_type  |-> item.listing_type,
    title         |-> item.title,
    issue         |-> t.issue,
    grade_numeric |-> item.grade_numeric,
    grade_company |-> item.grade_company,
    price         |-> item.price,
    sold_date     |-> item.sold_date,
    match_score   |-> score ]

\* the market_comps row import_csv inserts
csv_row(id, line) ==
  [ id            |-> id,
    comic_id      |-> None,
    listing_type  |-> "sold",
    title         |-> line.title,
    issue         |-> NoneStr,
    grade_numeric |-> line.grade_numeric,
    grade_company |-> line.grade_company,
    price         |-> line.price,
    sold_date     |-> line.sold_date,
    match_score   |-> None ]

\* the score upsert_api_comps computes for a listing returned for item i
listing_score(i, item) ==
  similarity_score(comics[i].grade_numeric,
                   IF comics[i].cgc_cert /= "" THEN 1 ELSE 0, item)

\* upsert_api_comps: the listing is kept for target i
storable(i, item, min_score) ==
  /\ is_target(comics[i])
  /\ listing_score(i, item) >= min_score

\* the row store_item appends to the table mc
stored_row(mc, i, item) == comp_row(Len(mc) + 1, comics[i], item, listing_score(i, item))

\* scripts/rebuild_unsold_prices.py: the rows of the INSERT ... SELECT
rebuilt_rows(mc) ==
  LET Matching(c) == SelectSeq(mc, LAMBDA r : /\ r.listing_type = "sold"
                                              /\ r.title = c.title
                                              /\ (r.issue = c.issue \/ r.issue = NoneStr))
      InClass(c) == /\ is_target(c)
                    /\ grade_class_sql(c) \in {"slabbed", "raw_community"}
  IN  { [ comic_id               |-> i,
          quick_sale             |-> RoundDiv(SumSeq(PricesOf(Matching(comics[i]))) * 90,
                                              Len(Matching(comics[i])) * 100),
          market_price           |-> RoundDiv(SumSeq(PricesOf(Matching(comics[i]))),
                                              Len(Matching(comics[i]))),
          premium_price          |-> RoundDiv(SumSeq(PricesOf(Matching(comics[i]))) * 115,
                                              Len(Matching(comics[i])) * 100),
          universal_market_price |-> None,
          qualified_market_price |-> None,
          active_anchor_price    |-> None,
          active_count           |-> None,
          confidence             |-> confidence_from_count(Len(Matching(comics[i]))),
          basis_count            |-> Len(Matching(comics[i])) ] :
        i \in {j \in ItemIds : InClass(comics[j]) /\ Len(Matching(comics[j])) > 0} }

(***************************************************************************)
(* Inputs of the decision engine.                                          *)
(***************************************************************************)
Statuses == {"unlisted", "drafted", "sold"}
\* grade_class_sql() yields the first three; a row built without the column has none
GradeClasses == {"slabbed", "raw_community", "raw_no_community", NoneStr}
Confidences == {"high", "medium", "low"}
\* market prices around the $300, $500, $1000 and $2500 thresholds
MarketPrices ==
  {1, 1000, 20000, 29999, 30000, 49999, 50000, 98400, 98413, 99999, 100000, 250000}
Grades == {None, 35, 40, 60, 80}
ActiveCounts == {1, MaxActiveCount}
\* an active anchor below every model anchor above $50, and one above all of them
ActiveAnchors == {5000, 400000}

\* the price_suggestions columns of a row of the LEFT JOIN: all NULL when the
\* item has no price_suggestions row; active_anchor_price is NULL exactly when
\* no active listing was counted
ValuationColumns ==
  { [market_price |-> None, confidence |-> NoneStr,
     active_count |-> None, active_anchor_price |-> None] }
  \cup
  { [market_price |-> m, confidence |-> c,
     active_count |-> n, active_anchor_price |-> None] :
       m \in MarketPrices, c \in Confidences, n \in {None, 0} }
  \cup
  { [market_price |-> m, confidence |-> c,
     active_count |-> n, active_anchor_price |-> aa] :
       m \in MarketPrices, c \in Confidences, n \in ActiveCounts, aa \in ActiveAnchors }

JoinRow(status, gc, g, q, v) ==
  [ status |-> status, grade_class |-> gc, grade_numeric |-> g, qualified_flag |-> q,
    market_price |-> v.market_price, confidence |-> v.confidence,
    active_count |-> v.active_count, active_anchor_price |-> v.active_anchor_price ]

Rows ==
  { JoinRow(st, gc, g, q, v) :
      st \in Statuses, gc \in GradeClasses, g \in Grades, q \in {0, 1}, v \in ValuationColumns }

\* assumption sets a request may carry: the defaults and overrides of them
AssumptionSets ==
  { DEFAULTS,
    [DEFAULTS EXCEPT !.cgc_grading_cost = 0, !.cgc_ship_insure_cost = 0,
                     !.time_penalty_rate = 0,
                     !.slab_lift_min_dollars = 0, !.slab_lift_min_pct = 0],
    [DEFAULTS EXCEPT !.slab_lift_min_dollars = 0 - 10000],
    [DEFAULTS EXCEPT !.platform_fee_rate = 150],
    [DEFAULTS EXCEPT !.platform_fee_rate = 0 - 10, !.slab_lift_min_dollars = 1000] }

VARIABLES
  market_comps,       \* table market_comps, a sequence in rowid order
  price_suggestions,  \* table price_suggestions, a set of rows keyed by comic_id
  evidence,           \* table price_suggestion_evidence: [comic_id, comp_id, rank]
  tie_order,          \* rowid order in which the engine returns rows that tie in ORDER BY
  agg_runs,           \* aggregator runs completed since another script last wrote, up to 2
  queue_args,         \* the query parameters of the answered /api/decision-queue request
  queue_out,          \* the list that request returned
  row,                \* the dict r handed to decision_for_row
  assumptions,        \* the assumptions dict of the request
  decision,           \* the dict decision_for_row returned
  dpc,                \* "ready" before the call, "done" after it
  page_out,           \* the decisions the listing page and the evidence page computed
  queue_ds,           \* the rows of the request after decision_for_row, before the filters
  run_pc,             \* per aggregator process: "loop", "done" or "failed"
  run_todo,           \* per aggregator process: the items its loop has not reached yet
  run_db,             \* per aggregator process: the tables as its open transaction sees them
  write_lock,         \* the process whose transaction holds the write lock, or 0
  reader,             \* a web request: its position and the rows its SELECTs returned
  trend_in,           \* the argument of a compute_trend call
  trend_out,          \* what the call returned
  est_in,             \* an item's target and deduplicated sold comps, as main() holds them
  est_out,            \* trend_at_grade and universal_market computed from them
  match_in,           \* the arguments of a strict_title_issue_match call
  match_out,          \* what the call returned
  score_in,           \* the arguments of a similarity_score call
  score_out,          \* what the call returned
  ing_pc,             \* ingestion run: "fetching" or "done"
  ing_seen,           \* ingestion run: seen_keys of the current target
  ing_target,         \* ingestion run: the current target
  ing_stored,         \* ingestion run: the market_comps rows the run stored, with their URL
  ing_args,           \* ingestion run: min_score (None before the run) and include_active
  ing_todo,           \* ingestion run: the targets not yet reached
  ing_count           \* ingestion run: listings the marketplace has returned so far

store_vars == <<market_comps, price_suggestions, evidence, tie_order, agg_runs>>
decision_vars == <<row, assumptions, decision, dpc, page_out>>
queue_vars == <<queue_args, queue_out>>
run_vars == <<run_pc, run_todo, run_db, write_lock, reader>>
trend_vars == <<trend_in, trend_out>>
est_vars == <<est_in, est_out>>
match_vars == <<match_in, match_out>>
score_vars == <<score_in, score_out>>
ingest_vars == <<ing_pc, ing_seen, ing_target, ing_stored, ing_args, ing_todo, ing_count>>
call_vars == <<trend_vars, est_vars, match_vars, score_vars>>
aux_vars == <<queue_ds, run_vars, call_vars, ingest_vars>>
vars == <<market_comps, price_suggestions, evidence, tie_order, agg_runs,
          queue_args, queue_out, row, assumptions, decision, dpc, page_out,
          queue_ds, run_pc, run_todo, run_db, write_lock, reader,
          trend_in, trend_out, est_in, est_out, match_in, match_out,
          score_in, score_out, ing_pc, ing_seen, ing_target, ing_stored,
          ing_args, ing_todo, ing_count>>

\* an empty database
StoreEmpty ==
  /\ market_comps = <<>>
  /\ price_suggestions = {}
  /\ evidence = {}
  /\ agg_runs = 0

\* no decision-queue request answered
NoArgs ==
  [ action |-> NoneStr, grade_classes |-> {}, min_market |-> 0,
    sort_by |-> NoneStr, limit |-> 0, assumptions |-> DEFAULTS ]

QueueIdle ==
  /\ queue_args = NoArgs
  /\ queue_out = <<>>
  /\ queue_ds = <<>>

\* the aggregator processes
Writers == {1, 2}

\* no web request reading the tables
NoReader ==
  [ pc |-> "idle", kind |-> NoneStr, item |-> 0, valuation |-> {}, links |-> {},
    start |-> [ps |-> {}, ev |-> {}] ]

\* no aggregator process running
RunIdle ==
  /\ run_pc = [p \in Writers |-> "done"]
  /\ run_todo = [p \in Writers |-> {}]
  /\ run_db = [p \in Writers |-> [ps |-> {}, ev |-> {}]]
  /\ write_lock = 0
  /\ reader = NoReader

\* no call of a pure function in progress
TrendIdle == trend_in = <<>> /\ trend_out = <<>>
EstIdle == est_in = <<>> /\ est_out = <<>>
MatchIdle == match_in = <<>> /\ match_out = <<>>
ScoreIdle == score_in = <<>> /\ score_out = <<>>
CallsIdle == TrendIdle /\ EstIdle /\ MatchIdle /\ ScoreIdle

\* no ingestion run in progress
IngestIdle ==
  /\ ing_pc = "done"
  /\ ing_seen = {}
  /\ ing_target = 0
  /\ ing_stored = {}
  /\ ing_args = [min_score |-> None, include_active |-> FALSE]
  /\ ing_todo = {}
  /\ ing_count = 0

\* neither page rendered
NoPages == [listing |-> <<>>, evidence |-> <<>>]

\* no decision request in progress
DecisionIdle ==
  /\ row = JoinRow("unlisted", "raw_no_community", None, 0,
                   [market_price |-> None, confidence |-> NoneStr,
                    active_count |-> None, active_anchor_price |-> None])
  /\ assumptions = DEFAULTS
  /\ decision = [action |-> NoneStr]
  /\ dpc = "idle"
  /\ page_out = NoPages

(***************************************************************************)
(* The decision engine on its own.                                         *)
(***************************************************************************)
DecisionInit ==
  /\ StoreEmpty
  /\ tie_order = "rowid_asc"
  /\ QueueIdle
  /\ RunIdle /\ CallsIdle /\ IngestIdle
  /\ row \in Rows
  /\ assumptions \in AssumptionSets
  /\ decision = [action |-> NoneStr]
  /\ dpc = "ready"
  /\ page_out = NoPages

Decide ==
  /\ dpc = "ready"
  /\ decision' = decision_for_row(row, assumptions)
  /\ dpc' = "done"
  /\ UNCHANGED <<row, assumptions, page_out>>
  /\ UNCHANGED store_vars
  /\ UNCHANGED queue_vars
  /\ UNCHANGED aux_vars

DecisionNext == Decide

SpecDecision == DecisionInit /\ [][DecisionNext]_vars

(***************************************************************************)
(* The scripts that write the store.                                       *)
(***************************************************************************)
TieOrders == {"rowid_asc", "rowid_desc"}

Init ==
  /\ StoreEmpty
  /\ tie_order \in TieOrders
  /\ QueueIdle
  /\ DecisionIdle
  /\ RunIdle /\ CallsIdle /\ IngestIdle

\* fetch_ebay_comps.upsert_api_comps / rebuild_batch.run: store_item for one
\* listing returned for target t
StoreItem ==
  \E i \in ItemIds, item \in Listings, min_score \in MinScores :
    /\ Len(market_comps) < MaxComps
    /\ storable(i, item, min_score)
    /\ market_comps' = Append(market_comps, stored_row(market_comps, i, item))
    /\ agg_runs' = 0
    /\ tie_order' \in TieOrders
    /\ UNCHANGED <<price_suggestions, evidence>>
    /\ UNCHANGED queue_vars
    /\ UNCHANGED decision_vars
    /\ UNCHANGED aux_vars

\* fetch_ebay_comps.import_csv: one row of the file
ImportCsv ==
  \E line \in CsvRows :
    /\ Len(market_comps) < MaxComps
    /\ market_comps' = Append(market_comps, csv_row(Len(market_comps) + 1, line))
    /\ agg_runs' = 0
    /\ tie_order' \in TieOrders
    /\ UNCHANGED <<price_suggestions, evidence>>
    /\ UNCHANGED queue_vars
    /\ UNCHANGED decision_vars
    /\ UNCHANGED aux_vars

\* import_all_comps.py --clear: DELETE FROM market_comps (the evidence rows go
\* with their comps, ON DELETE CASCADE) and DELETE FROM price_suggestions
ClearComps ==
  /\ market_comps' = <<>>
  /\ price_suggestions' = {}
  /\ evidence' = {}
  /\ agg_runs' = 0
  /\ tie_order' \in TieOrders
  /\ UNCHANGED queue_vars
  /\ UNCHANGED decision_vars
  /\ UNCHANGED aux_vars

\* rebuild_unsold_prices.py main()
RebuildUnsoldPrices ==
  /\ price_suggestions' = rebuilt_rows(market_comps)
  /\ agg_runs' = 0
  /\ UNCHANGED <<market_comps, evidence, tie_order>>
  /\ UNCHANGED queue_vars
  /\ UNCHANGED decision_vars
  /\ UNCHANGED aux_vars

\* price_suggestions.py main()
Aggregate ==
  LET db == price_suggestions_main(market_comps,
                                   [ps |-> price_suggestions, ev |-> evidence], tie_order)
  IN  /\ price_suggestions' = db.ps
      /\ evidence' = db.ev
      /\ agg_runs' = Min2(agg_runs + 1, 2)
      /\ UNCHANGED <<market_comps, tie_order>>
      /\ UNCHANGED queue_vars
      /\ UNCHANGED decision_vars
      /\ UNCHANGED aux_vars

Next ==
  \/ StoreItem
  \/ ImportCsv
  \/ ClearComps
  \/ RebuildUnsoldPrices
  \/ Aggregate

Spec == Init /\ [][Next]_vars

(***************************************************************************)
(* app/main.py: GET /api/decision-queue.                                   *)
(***************************************************************************)
\* trend_pct of a trend that could not be computed (Python None); computed
\* values are tenths of a percent and never below -1000
NoPct == 0 - 100000

Insufficient == [trend |-> "insufficient", trend_pct |-> NoPct]

\* compute_trend: prices newest first
compute_trend(prices_desc) ==
  LET vals == SelectSeq(prices_desc, LAMBDA x : x /= None /\ x > 0)
  IN  IF Len(vals) < 8 THEN Insufficient
      ELSE
        LET recent == SubSeq(vals, 1, 5)
            prior == SubSeq(vals, 6, Min2(Len(vals), 10))
        IN  IF Len(prior) < 3 THEN Insufficient
            ELSE
              LET recent_med == SortAsc(recent)[(Len(recent) \div 2) + 1]
                  prior_med == SortAsc(prior)[(Len(prior) \div 2) + 1]
                  diff == recent_med - prior_med
              IN  IF prior_med <= 0 THEN Insufficient
                  ELSE [ trend |-> IF diff * 100 >= 8 * prior_med THEN "rising"
                                   ELSE IF diff * 100 <= (0 - 8) * prior_med THEN "falling"
                                   ELSE "flat",
                         trend_pct |-> RoundDiv(diff * 1000, prior_med) ]

\* lines 501-516: the sold prices of one item, newest row first
RECURSIVE prices_id_desc(_, _, _)
prices_id_desc(mc, cid, k) ==
  IF k = 0 THEN <<>>
  ELSE IF mc[k].comic_id = cid /\ mc[k].listing_type = "sold" /\ mc[k].price /= None
    THEN <<mc[k].price>> \o prices_id_desc(mc, cid, k - 1)
    ELSE prices_id_desc(mc, cid, k - 1)

trend_of(mc, cid) ==
  LET prices == prices_id_desc(mc, cid, Len(mc))
  IN  IF Len(prices) = 0 THEN Insufficient ELSE compute_trend(prices)

\* the ps.* columns of an item that has no price_suggestions row
NullValuation ==
  [ market_price |-> None, universal_market_price |-> None,
    qualified_market_price |-> None, active_anchor_price |-> None,
    active_count |-> None, confidence |-> NoneStr, basis_count |-> None ]

\* lines 486-490: comics c LEFT JOIN price_suggestions ps ON ps.comic_id = c.id
left_join(c, ps) ==
  LET v == IF \E p \in ps : p.comic_id = c.id
             THEN CHOOSE p \in ps : p.comic_id = c.id
             ELSE NullValuation
  IN  [ id                     |-> c.id,
        title                  |-> c.title,
        issue                  |-> c.issue,
        grade_numeric          |-> c.grade_numeric,
        status                 |-> c.status,
        qualified_flag         |-> c.qualified_flag,
        grade_class            |-> grade_class_sql(c),
        market_price           |-> v.market_price,
        universal_market_price |-> v.universal_market_price,
        qualified_market_price |-> v.qualified_market_price,
        active_anchor_price    |-> v.active_anchor_price,
        active_count           |-> v.active_count,
        confidence             |-> v.confidence,
        basis_count            |-> v.basis_count ]

\* lines 491-493: the rows of the query.  Every item of the inventory has the
\* same title and issue, so ORDER BY leaves their order to the engine.
RECURSIVE queue_rows_from(_, _, _)
queue_rows_from(i, ps, ties) ==
  IF i > NumItems THEN <<>>
  ELSE LET here == IF is_target(comics[i]) THEN <<left_join(comics[i], ps)>> ELSE <<>>
           rest == queue_rows_from(i + 1, ps, ties)
       IN  IF ties = "rowid_asc" THEN here \o rest ELSE rest \o here

\* lines 528-538: the dict of one row (the cover photo, the importance text
\* and the offer id, read from files, are left out)
queue_entry(r, mc, a) ==
  trend_of(mc, r.id) @@ decision_for_row(r, a) @@ r

\* queue_kept without the minimum-price test
queue_kept_mut(d, q) ==
  /\ ~(q.action /= NoneStr /\ d.action /= q.action)
  /\ ~(q.grade_classes /= {} /\ d.grade_class \notin q.grade_classes)

\* lines 530-535: the three filters
queue_kept(d, q) ==
  /\ ~(q.action /= NoneStr /\ d.action /= q.action)
  /\ ~(q.grade_classes /= {} /\ d.grade_class \notin q.grade_classes)
  /\ ~(coalesce0(d.market_price) < q.min_market)

\* lines 546-552
priority(action) ==
  CASE action = "list_now_slabbed"    -> 1
    [] action = "slab_candidate"      -> 2
    [] action = "sell_raw_now"        -> 3
    [] action = "get_community_grade" -> 4
    [] action = "needs_comps"         -> 5
    [] OTHER                          -> 99

\* sort_key with the market price not negated
sort_key_mut(d, sort_by) ==
  IF sort_by = "fmv_desc"
    THEN <<coalesce0(d.market_price), priority(d.action)>>
    ELSE <<priority(d.action), coalesce0(d.market_price)>>

\* lines 554-557: the sort key, a pair compared lexicographically
sort_key(d, sort_by) ==
  IF sort_by = "fmv_desc"
    THEN <<0 - coalesce0(d.market_price), priority(d.action)>>
    ELSE <<priority(d.action), 0 - coalesce0(d.market_price)>>

KeyLE(k1, k2) == k1[1] < k2[1] \/ (k1[1] = k2[1] /\ k1[2] <= k2[2])

\* list.sort: stable
RECURSIVE queue_sort(_, _)
queue_sort(out, sort_by) ==
  IF Len(out) = 0 THEN <<>>
  ELSE LET IsMin(i) == \A j \in 1..Len(out) :
                         KeyLE(sort_key(out[i], sort_by), sort_key(out[j], sort_by))
           k == CHOOSE i \in 1..Len(out) :
                  IsMin(i) /\ \A j \in 1..(i - 1) : ~IsMin(j)
           rest == [i \in 1..(Len(out) - 1) |-> IF i < k THEN out[i] ELSE out[i + 1]]
       IN  <<out[k]>> \o queue_sort(rest, sort_by)

\* lines 526-529: every row of the query with its decision and trend
queue_decided(mc, ps, ties, q) ==
  LET rows == queue_rows_from(1, ps, ties)
  IN  [i \in 1..Len(rows) |-> queue_entry(rows[i], mc, q.assumptions)]

\* lines 530-559: the filters, the sort and the limit
queue_finish(ds, q) ==
  Limit(queue_sort(SelectSeq(ds, LAMBDA d : queue_kept(d, q)), q.sort_by), q.limit)

\* decision_queue: the list the request q returns
decision_queue(mc, ps, ties, q) ==
  queue_finish(queue_decided(mc, ps, ties, q), q)

\* requests: an action filter, a grade-class filter, a minimum price (cents),
\* a sort order and a limit
QueueRequests ==
  { [ action |-> act, grade_classes |-> gcs, min_market |-> mm,
      sort_by |-> sb, limit |-> lim, assumptions |-> DEFAULTS ] :
      act \in {NoneStr, "needs_comps", "get_community_grade"},
      gcs \in {{}, {"slabbed"}, {"raw_community", "raw_no_community"}},
      mm \in {0, 1, 50000},
      sb \in {"priority", "fmv_desc"},
      lim \in {1, 300} }

\* the tables after up to n stored or imported comps
RECURSIVE CompTables(_)
CompTables(n) ==
  IF n = 0 THEN {<<>>}
  ELSE LET shorter == CompTables(n - 1)
           full == {mc \in shorter : Len(mc) = n - 1}
       IN  shorter
           \cup {Append(mc, stored_row(mc, i, item)) :
                   mc \in full,
                   i \in {j \in ItemIds : is_target(comics[j])},
                   item \in Listings}
           \cup {Append(mc, csv_row(Len(mc) + 1, line)) : mc \in full, line \in CsvRows}

\* The store at rest: comps ingested by StoreItem and ImportCsv
\* (rows StoreItem would not keep at any --min-score are left out), and then
\* nothing, the aggregator, or rebuild_unsold_prices.
StoreIngested ==
  /\ tie_order \in TieOrders
  /\ market_comps \in
       {mc \in CompTables(MaxQueueComps) :
          \A k \in 1..Len(mc) :
            mc[k].comic_id /= None => \E ms \in MinScores : mc[k].match_score >= ms}
  /\ \E written \in {"nothing", "aggregated", "rebuilt"} :
       LET db == IF written = "aggregated"
                   THEN price_suggestions_main(market_comps,
                                               [ps |-> {}, ev |-> {}], tie_order)
                 ELSE IF written = "rebuilt"
                   THEN [ps |-> rebuilt_rows(market_comps), ev |-> {}]
                 ELSE [ps |-> {}, ev |-> {}]
       IN  /\ price_suggestions = db.ps
           /\ evidence = db.ev
           /\ agg_runs = IF written = "aggregated" THEN 1 ELSE 0

QueueInit ==
  /\ StoreIngested
  /\ QueueIdle
  /\ DecisionIdle
  /\ RunIdle /\ CallsIdle /\ IngestIdle

\* the handler answers the request that is pending
DecisionQueue ==
  \E q \in QueueRequests :
    /\ queue_args = NoArgs
    /\ queue_args' = q
    /\ queue_ds' = queue_decided(market_comps, price_suggestions, tie_order, q)
    /\ queue_out' = decision_queue(market_comps, price_suggestions, tie_order, q)
    /\ UNCHANGED store_vars
    /\ UNCHANGED decision_vars
    /\ UNCHANGED <<run_vars, call_vars, ingest_vars>>

QueueNext == DecisionQueue

SpecQueue == QueueInit /\ [][QueueNext]_vars

(***************************************************************************)
(* Properties of the decision engine (checked under SpecDecision).         *)
(***************************************************************************)
Decided == dpc = "done"
Unsold == row.status /= "sold"
MarketKnown == row.market_price /= None

\* the action the slab-lift rule prescribes, given whether the percentage clears
RuleAction(pct_clears) ==
  IF slab_lift2000(row, assumptions) >= assumptions.slab_lift_min_dollars * 2000 /\ pct_clears
    THEN "slab_candidate"
  ELSE IF row.grade_class = "raw_no_community" THEN "get_community_grade"
  ELSE "sell_raw_now"

\* slab_lift / net_raw >= slab_lift_min_pct with the quotient taken literally
\* (net_raw /= 0): dividing by a negative net_raw reverses the comparison
LiteralPctClears ==
  IF net_raw100(row, assumptions) > 0
    THEN 5 * slab_lift2000(row, assumptions)
           >= assumptions.slab_lift_min_pct * net_raw100(row, assumptions)
    ELSE 5 * slab_lift2000(row, assumptions)
           <= assumptions.slab_lift_min_pct * net_raw100(row, assumptions)

\* slab_lift_pct as the code takes it: the quotient when net_raw > 0, else 0
GuardedPctClears ==
  IF net_raw100(row, assumptions) > 0
    THEN 5 * slab_lift2000(row, assumptions)
           >= assumptions.slab_lift_min_pct * net_raw100(row, assumptions)
    ELSE assumptions.slab_lift_min_pct <= 0

\* C1 (as stated): for every unsold, non-slabbed item with a known market
\* price the action is slab_candidate exactly when slab_lift clears the dollar
\* threshold and slab_lift / net_raw clears the percentage threshold, otherwise
\* get_community_grade for raw_no_community and sell_raw_now for the rest.
C1_Original ==
  (Decided /\ Unsold /\ row.grade_class /= "slabbed" /\ MarketKnown
     /\ net_raw100(row, assumptions) /= 0)
    => decision.action = RuleAction(LiteralPctClears)

\* C1 (amended): the same rule with slab_lift_pct equal to slab_lift / net_raw
\* when net_raw > 0 and equal to 0 when net_raw <= 0.
C1_SlabCandidateRule ==
  (Decided /\ Unsold /\ row.grade_class /= "slabbed" /\ MarketKnown)
    => decision.action = RuleAction(GuardedPctClears)

\* a raw item with non-positive net_raw was decided slab_candidate
C1_Witness ==
  /\ Decided /\ Unsold /\ row.grade_class = "raw_community" /\ MarketKnown
  /\ net_raw100(row, assumptions) <= 0
  /\ decision.action = "slab_candidate"

\* C2 (as stated): every unsold item with unknown market price gets
\* get_community_grade when raw_no_community and needs_comps otherwise.
C2_Original ==
  (Decided /\ Unsold /\ ~MarketKnown)
    => decision.action =
         IF row.grade_class = "raw_no_community" THEN "get_community_grade" ELSE "needs_comps"

\* C2 (amended): every unsold, non-slabbed item with unknown market price gets
\* get_community_grade when raw_no_community and needs_comps otherwise; an
\* unsold slabbed item gets list_now_slabbed whether or not the price is known.
C2_UnknownMarketRule ==
  (Decided /\ Unsold /\ ~MarketKnown)
    => decision.action =
         IF row.grade_class = "slabbed" THEN "list_now_slabbed"
         ELSE IF row.grade_class = "raw_no_community" THEN "get_community_grade"
         ELSE "needs_comps"

\* both unknown-market outcomes for non-slabbed items occur; this is the raw_no_community one
C2_Witness ==
  /\ Decided /\ Unsold /\ ~MarketKnown
  /\ row.grade_class = "raw_no_community"
  /\ decision.action = "get_community_grade"

\* C3 (as stated): for a slabbed item with known market price, floor_price is
\* between 88% and 92% of the decision's target_price (one cent of rounding
\* allowed on either side).
C3_Original ==
  (Decided /\ Unsold /\ row.grade_class = "slabbed" /\ MarketKnown)
    => /\ 100 * decision.floor_price >= 88 * decision.target_price - 100
       /\ 100 * decision.floor_price <= 92 * decision.target_price + 100

\* C3 (amended): for a slabbed item with known market price, floor_price is
\* 92% of the market price when confidence is high and 88% of the market price
\* otherwise, rounded to cents; the percentage depends only on the confidence.
C3_FloorOfMarket ==
  (Decided /\ Unsold /\ row.grade_class = "slabbed" /\ MarketKnown)
    => decision.floor_price =
         RoundDiv(row.market_price * (IF row.confidence = "high" THEN 92 ELSE 88), 100)

\* a slabbed decision whose floor is 88% of market and under 88% of target
C3_Witness ==
  /\ Decided /\ Unsold /\ row.grade_class = "slabbed" /\ MarketKnown
  /\ row.confidence = "medium"
  /\ 100 * decision.floor_price = 88 * row.market_price
  /\ 100 * decision.floor_price < 88 * decision.target_price - 100

\* the scenario of C4: raw with community grading, $200, medium, 8.0, unqualified, defaults
C4_Scenario ==
  /\ Decided /\ Unsold
  /\ row.grade_class = "raw_community"
  /\ row.market_price = 20000
  /\ row.confidence = "medium"
  /\ row.grade_numeric = 80
  /\ row.qualified_flag = 0
  /\ assumptions = DEFAULTS

\* C4 (as stated): in the scenario the slab multiplier is 1.15 (gross $230),
\* net_raw 159.00, net_slabbed 170.95, slab_lift 11.95, action sell_raw_now.
C4_Original ==
  C4_Scenario =>
    /\ estimate_slab_multiplier(row.grade_numeric, row.qualified_flag) = 23
    /\ expected_slab_gross20(row) = 23000 * 20
    /\ decision.net_raw = 15900
    /\ decision.net_slabbed = 17095
    /\ decision.slab_lift = 1195
    /\ decision.action = "sell_raw_now"

\* C4 (amended): in the scenario the slab multiplier is 1.35 (gross $270),
\* net_raw 159.00, net_slabbed 141.40, slab_lift -17.60, action sell_raw_now.
C4_ScenarioValues ==
  C4_Scenario =>
    /\ estimate_slab_multiplier(row.grade_numeric, row.qualified_flag) = 27
    /\ expected_slab_gross20(row) = 27000 * 20
    /\ decision.net_raw = 15900
    /\ decision.net_slabbed = 14140
    /\ decision.slab_lift = 0 - 1760
    /\ decision.action = "sell_raw_now"

C4_Witness == C4_Scenario /\ decision.action = "sell_raw_now" /\ decision.slab_lift < 0

\* C5: a sold item gets action already_sold and no other key, whatever the
\* grade class, market price, confidence and assumptions.
C5_SoldIsTerminal ==
  (Decided /\ row.status = "sold")
    => /\ decision.action = "already_sold"
       /\ DOMAIN decision = {"action"}

\* a sold, slabbed item with a market price and an active anchor was decided
C5_Witness ==
  /\ Decided /\ row.status = "sold" /\ row.grade_class = "slabbed"
  /\ MarketKnown /\ row.active_anchor_price /= None
  /\ decision.action = "already_sold"

\* the multiplier as the specification words it, in percent
C6_Sum ==
  105
  + (IF row.grade_class = "slabbed" THEN 3 ELSE 0)
  + (IF row.confidence = "high" THEN 2 ELSE 0)
  - (IF row.confidence = "low" THEN 2 ELSE 0)
  + (IF MarketKnown /\ row.market_price >= 100000 THEN 3
     ELSE IF MarketKnown /\ row.market_price >= 30000 THEN 1 ELSE 0)
  + (IF row.active_count /= None /\ row.active_count >= 8 THEN 1 ELSE 0)
  - (IF row.active_count = None \/ row.active_count = 0 THEN 1 ELSE 0)

C6_Clamped == IF C6_Sum < 103 THEN 103 ELSE IF C6_Sum > 118 THEN 118 ELSE C6_Sum

\* C6: dynamic_ask_multiplier is 1.05 plus the slabbed, confidence, price-tier
\* and active-listing adjustments, clamped to [1.03, 1.18], and target_price is
\* market price times that multiplier rounded to cents.
C6_AskMultiplier ==
  Decided =>
    /\ dynamic_ask_multiplier(row) = C6_Clamped
    /\ (Unsold /\ MarketKnown)
         => decision.target_price = RoundDiv(row.market_price * C6_Clamped, 100)

\* a $1000 slabbed high-confidence item with 8 active listings is priced at 1.14 x market
C6_Witness ==
  /\ Decided /\ Unsold /\ row.grade_class = "slabbed"
  /\ row.market_price = 100000 /\ row.confidence = "high" /\ row.active_count = 8
  /\ decision.target_price = 114000

\* C7: with a known market price, anchor_price is the larger of the model
\* anchor (market x 1.3 from $500, else x 1.2) and the active-listing anchor
\* when there is one; so it is never below the active-listing anchor.
C7_AnchorIsMax ==
  (Decided /\ Unsold /\ MarketKnown) =>
    LET model == RoundDiv(row.market_price * (IF row.market_price >= 50000 THEN 130 ELSE 120), 100)
    IN  /\ decision.anchor_price =
             IF row.active_anchor_price /= None /\ row.active_anchor_price > model
               THEN row.active_anchor_price ELSE model
        /\ row.active_anchor_price /= None => decision.anchor_price >= row.active_anchor_price

\* an active anchor above the model anchor became the anchor price
C7_Witness ==
  /\ Decided /\ Unsold /\ MarketKnown
  /\ row.active_anchor_price /= None
  /\ row.active_anchor_price > (row.market_price * 130) \div 100
  /\ decision.anchor_price = row.active_anchor_price

(***************************************************************************)
(* Properties of the valuation aggregator and of the decision queue.       *)
(***************************************************************************)
HasValuation(i) == \E p \in price_suggestions : p.comic_id = i
HasEvidence(i) == \E e \in evidence : e.comic_id = i

\* the item has a sold comp with a price above 0
HasUsableSold(i) ==
  \E k \in 1..Len(market_comps) :
    /\ market_comps[k].comic_id = i
    /\ market_comps[k].listing_type = "sold"
    /\ market_comps[k].price /= None
    /\ market_comps[k].price > 0

HasSold(i) ==
  \E k \in 1..Len(market_comps) :
    market_comps[k].comic_id = i /\ market_comps[k].listing_type = "sold"

\* C8: when a run of the aggregator has completed (and no other script has
\* written since), an item has a Valuation row if and only if it has at least
\* one sold comp with price > 0, and an item with none has neither a Valuation
\* row nor EvidenceLink rows.
C8_ValuationIffUsableComp ==
  agg_runs >= 1 =>
    \A i \in ItemIds :
      /\ HasValuation(i) <=> HasUsableSold(i)
      /\ ~HasUsableSold(i) => ~HasEvidence(i)

\* after a run: one item valued from its comps, another whose only sold comp
\* has price 0 left without rows, and a CSV sale from which
\* rebuild_unsold_prices would have priced items the aggregator must clear
C8_Witness ==
  /\ agg_runs >= 1
  /\ \E i \in ItemIds : HasValuation(i) /\ HasEvidence(i)
  /\ \E i \in ItemIds : HasSold(i) /\ ~HasUsableSold(i) /\ ~HasValuation(i) /\ ~HasEvidence(i)
  /\ rebuilt_rows(market_comps) /= {}

\* entries of the answered request
QueueAnswered == queue_args /= NoArgs
QueueIds == {queue_out[k].id : k \in 1..Len(queue_out)}

C10_AggregatorIdempotent ==
  [][(agg_runs >= 1 /\ agg_runs' = 2)
       => (price_suggestions' = price_suggestions /\ evidence' = evidence)]_vars

\* two sold comps of one item tie on relevance score and sold date
TiedSoldComps(i) ==
  \E j, k \in 1..Len(market_comps) :
    /\ j /= k
    /\ market_comps[j].comic_id = i /\ market_comps[k].comic_id = i
    /\ market_comps[j].listing_type = "sold" /\ market_comps[k].listing_type = "sold"
    /\ market_comps[j].match_score = market_comps[k].match_score
    /\ market_comps[j].sold_date = market_comps[k].sold_date
    /\ market_comps[j].price /= market_comps[k].price

\* the aggregator has run twice in a row over an item whose two comps tie on
\* score and date, and both are linked as evidence
C10_Witness ==
  /\ agg_runs = 2
  /\ \E i \in ItemIds :
       /\ TiedSoldComps(i)
       /\ HasValuation(i)
       /\ \E e1, e2 \in evidence :
            e1.comic_id = i /\ e2.comic_id = i /\ e1.rank = 1 /\ e2.rank = 2

(***************************************************************************)
(* Aggregator runs as concurrent processes.  A run reads market_comps,     *)
(* opens its transaction at its first DELETE or INSERT, which takes the    *)
(* store's write lock, and holds it until the commit at the end of main(). *)
(* Another run's first write waits for the lock (db.py: busy_timeout) and  *)
(* raises "database is locked" when the wait runs out.  The order of the   *)
(* loop is the order in which SELECT ... FROM comics returns the rows,     *)
(* which the query leaves to the engine.                                   *)
(***************************************************************************)
ConcurrentInit ==
  /\ StoreIngested
  /\ QueueIdle
  /\ DecisionIdle
  /\ CallsIdle /\ IngestIdle
  /\ run_pc = [p \in Writers |-> "loop"]
  /\ run_todo = [p \in Writers |-> ItemIds]
  /\ run_db = [p \in Writers |-> [ps |-> {}, ev |-> {}]]
  /\ write_lock = 0
  /\ reader = NoReader

\* lines 123-283: one pass of the loop of process p, for the item i it reached
RunItem(p) ==
  \E i \in run_todo[p] :
    /\ run_pc[p] = "loop"
    /\ write_lock \in {0, p}
    /\ LET seen == IF write_lock = p THEN run_db[p]
                   ELSE [ps |-> price_suggestions, ev |-> evidence]
       IN  run_db' = [run_db EXCEPT ![p] = aggregate_item(comics[i], market_comps, seen, tie_order)]
    /\ write_lock' = p
    /\ run_todo' = [run_todo EXCEPT ![p] = run_todo[p] \ {i}]
    /\ UNCHANGED <<run_pc, reader>>
    /\ UNCHANGED store_vars
    /\ UNCHANGED <<queue_vars, queue_ds, decision_vars, call_vars, ingest_vars>>

\* line 285: conn.commit()
RunCommit(p) ==
  /\ run_pc[p] = "loop"
  /\ run_todo[p] = {}
  /\ write_lock = p
  /\ price_suggestions' = run_db[p].ps
  /\ evidence' = run_db[p].ev
  /\ agg_runs' = Min2(agg_runs + 1, 2)
  /\ write_lock' = 0
  /\ run_pc' = [run_pc EXCEPT ![p] = "done"]
  /\ UNCHANGED <<market_comps, tie_order, run_todo, run_db, reader>>
  /\ UNCHANGED <<queue_vars, queue_ds, decision_vars, call_vars, ingest_vars>>

\* sqlite3.OperationalError: the lock was not released within busy_timeout;
\* the process ends without a commit
RunLocked(p) ==
  /\ run_pc[p] = "loop"
  /\ write_lock \notin {0, p}
  /\ run_pc' = [run_pc EXCEPT ![p] = "failed"]
  /\ UNCHANGED <<run_todo, run_db, write_lock, reader>>
  /\ UNCHANGED store_vars
  /\ UNCHANGED <<queue_vars, queue_ds, decision_vars, call_vars, ingest_vars>>

ConcurrentNext ==
  \E p \in Writers : RunItem(p) \/ RunCommit(p) \/ RunLocked(p)

SpecConcurrent == ConcurrentInit /\ [][ConcurrentNext]_vars

\* one sequential run in the order of the ids
SequentialRun ==
  price_suggestions_main(market_comps, [ps |-> {}, ev |-> {}], tie_order)

\* the comps of item i alone
OwnComps(i) == SelectSeq(market_comps, LAMBDA r : r.comic_id = i)

\* the rows a run over item i alone and over its comps alone writes
OwnRows(i) ==
  aggregate_item(comics[i], OwnComps(i), [ps |-> {}, ev |-> {}], tie_order)

\* C11: once an aggregator run has committed, whatever the order of its loop
\* and whether or not another run was executing at the same time, the
\* Valuation and EvidenceLink rows are those of one sequential run, and the
\* rows of each item are those computed from that item and its comps alone.
C11_OrderIndependent ==
  (\E p \in Writers : run_pc[p] = "done") =>
    /\ price_suggestions = SequentialRun.ps
    /\ evidence = SequentialRun.ev
    /\ \A i \in ItemIds :
         /\ {v \in price_suggestions : v.comic_id = i} = OwnRows(i).ps
         /\ {e \in evidence : e.comic_id = i} = OwnRows(i).ev

\* both runs have committed, one after the other, and two items have
\* Valuation and EvidenceLink rows
C11_Witness ==
  /\ \A p \in Writers : run_pc[p] = "done"
  /\ \E i, j \in ItemIds :
       /\ i /= j
       /\ HasValuation(i) /\ HasEvidence(i)
       /\ HasValuation(j) /\ HasEvidence(j)

(***************************************************************************)
(* The filters, the sort and the limit of the decision queue, on rows that  *)
(* decision_for_row has decided.                                           *)
(***************************************************************************)
\* what lines 530-559 read of a decided row: its action, grade class and
\* market price, in the combinations decision_for_row produces for unsold items
DecidedShapes ==
  { [action |-> "list_now_slabbed", grade_class |-> "slabbed", market_price |-> m] :
      m \in {None, 10000, 20000} }
  \cup { [action |-> a, grade_class |-> "raw_community", market_price |-> m] :
           a \in {"sell_raw_now", "slab_candidate"}, m \in {10000, 20000} }
  \cup { [action |-> "needs_comps", grade_class |-> "raw_community", market_price |-> None] }
  \cup { [action |-> "get_community_grade", grade_class |-> "raw_no_community",
          market_price |-> m] : m \in {None, 10000} }
  \cup { [action |-> "slab_candidate", grade_class |-> "raw_no_community",
          market_price |-> 20000] }

\* lists of decided rows; the id of a row is its position in the query result
RECURSIVE DecidedLists(_)
DecidedLists(n) ==
  IF n = 0 THEN {<<>>}
  ELSE LET shorter == DecidedLists(n - 1)
       IN  shorter
           \cup {Append(ds, [id |-> n] @@ d) :
                   ds \in {x \in shorter : Len(x) = n - 1}, d \in DecidedShapes}

RankRequests ==
  { [ action |-> act, grade_classes |-> gcs, min_market |-> mm,
      sort_by |-> sb, limit |-> lim, assumptions |-> DEFAULTS ] :
      act \in {NoneStr, "sell_raw_now"},
      gcs \in {{}, {"raw_community", "raw_no_community"}},
      mm \in {0, 15000},
      sb \in {"priority", "fmv_desc"},
      lim \in {2, 300} }

RankInit ==
  /\ StoreEmpty
  /\ tie_order = "rowid_asc"
  /\ queue_args = NoArgs
  /\ queue_out = <<>>
  /\ queue_ds \in DecidedLists(MaxRankLen)
  /\ DecisionIdle
  /\ RunIdle /\ CallsIdle /\ IngestIdle

\* lines 530-559 of the handler
FinishQueue ==
  \E q \in RankRequests :
    /\ queue_args = NoArgs
    /\ queue_args' = q
    /\ queue_out' = queue_finish(queue_ds, q)
    /\ UNCHANGED queue_ds
    /\ UNCHANGED store_vars
    /\ UNCHANGED decision_vars
    /\ UNCHANGED <<run_vars, call_vars, ingest_vars>>

RankNext == FinishQueue

SpecRank == RankInit /\ [][RankNext]_vars

\* the priority order as the claim lists it
ClaimedPriority ==
  <<"list_now_slabbed", "slab_candidate", "sell_raw_now", "get_community_grade", "needs_comps">>

ClaimedRank(d) == CHOOSE k \in 1..Len(ClaimedPriority) : ClaimedPriority[k] = d.action

\* an unknown market price ranks as 0
ClaimedPrice(d) == IF d.market_price = None THEN 0 ELSE d.market_price

\* d1 comes strictly before d2 in the order the request asks for
ClaimedBefore(d1, d2) ==
  IF queue_args.sort_by = "fmv_desc"
    THEN \/ ClaimedPrice(d1) > ClaimedPrice(d2)
         \/ ClaimedPrice(d1) = ClaimedPrice(d2) /\ ClaimedRank(d1) < ClaimedRank(d2)
    ELSE \/ ClaimedRank(d1) < ClaimedRank(d2)
         \/ ClaimedRank(d1) = ClaimedRank(d2) /\ ClaimedPrice(d1) > ClaimedPrice(d2)

\* positions of the decided rows that pass the filters
KeptPositions == {k \in 1..Len(queue_ds) : queue_kept(queue_ds[k], queue_args)}

\* C12: the returned list is in action-priority order and, within one action,
\* in descending market price (price first, then priority, when fmv_desc is
\* requested), and it is the first `limit` rows of that order among the rows
\* that pass the filters.
C12_QueueOrder ==
  QueueAnswered =>
    /\ \A k \in 1..(Len(queue_out) - 1) : ~ClaimedBefore(queue_out[k + 1], queue_out[k])
    /\ Len(queue_out) = Min2(queue_args.limit, Cardinality(KeptPositions))
    /\ Cardinality(QueueIds) = Len(queue_out)
    /\ \A k \in 1..Len(queue_out) :
         \E j \in KeptPositions :
           /\ queue_ds[j].id = queue_out[k].id
           /\ queue_ds[j].action = queue_out[k].action
           /\ queue_ds[j].market_price = queue_out[k].market_price
    /\ \A j \in KeptPositions :
         queue_ds[j].id \notin QueueIds =>
           \A k \in 1..Len(queue_out) : ~ClaimedBefore(queue_ds[j], queue_out[k])

\* three rows passed the filters, the limit cut the list to two, and the two
\* returned rows share an action and are in descending price
C12_Witness ==
  /\ QueueAnswered
  /\ queue_args.sort_by = "priority"
  /\ Cardinality(KeptPositions) = 3
  /\ Len(queue_out) = 2
  /\ queue_out[1].action = queue_out[2].action
  /\ ClaimedPrice(queue_out[1]) > ClaimedPrice(queue_out[2])
  /\ queue_ds[1].id /= queue_out[1].id

(***************************************************************************)
(* compute_trend on its own.                                               *)
(***************************************************************************)
\* the five newest prices: the example of the specification, a level
\* window, and a window with unusable prices in it
RecentWindows ==
  { <<10000, 10500, 11000, 10800, 11200>>,
    <<9000, 9000, 9000, 9000, 9000>>,
    <<9000, None, 9000, 0, 9000>> }

\* the older prices
RECURSIVE OlderPrices(_)
OlderPrices(n) ==
  IF n = 0 THEN {<<>>}
  ELSE LET shorter == OlderPrices(n - 1)
       IN  shorter
           \cup {Append(q, v) : q \in {x \in shorter : Len(x) = n - 1},
                                v \in {None, 5000, 6000, 10000, 11000}}

TrendInit ==
  /\ StoreEmpty
  /\ tie_order = "rowid_asc"
  /\ QueueIdle
  /\ DecisionIdle
  /\ RunIdle /\ IngestIdle
  /\ EstIdle /\ MatchIdle /\ ScoreIdle
  /\ trend_in \in
       {<<>>, <<10000, 10500, 11000>>,
        <<10000, 10500, 11000, 10800, 11200, 6000, 5800, 5500, 6200, 5900>>}
       \cup {r \o q : r \in RecentWindows, q \in OlderPrices(MaxTrendLen - 5)}
  /\ trend_out = <<>>

ComputeTrend ==
  /\ trend_out = <<>>
  /\ trend_out' = compute_trend(trend_in)
  /\ UNCHANGED trend_in
  /\ UNCHANGED store_vars
  /\ UNCHANGED <<queue_vars, queue_ds, decision_vars>>
  /\ UNCHANGED <<run_vars, est_vars, match_vars, score_vars, ingest_vars>>

TrendNext == ComputeTrend

SpecTrend == TrendInit /\ [][TrendNext]_vars

TrendReturned == trend_out /= <<>>

\* the usable prices of the call, newest first
UsablePrices == SelectSeq(trend_in, LAMBDA x : x /= None /\ x > 0)

\* twice the median of a window: the middle price counted twice, or the sum
\* of the two middle prices of a window of even length
TwiceMedian(w) ==
  LET sorted == SortAsc(w)
      n == Len(w)
  IN  IF n % 2 = 1 THEN 2 * sorted[(n + 1) \div 2]
      ELSE sorted[n \div 2] + sorted[(n \div 2) + 1]

\* the label the claim gives
ClaimedTrend ==
  LET vals == UsablePrices
      recent == SubSeq(vals, 1, Min2(5, Len(vals)))
      prior == SubSeq(vals, 6, Min2(10, Len(vals)))
  IN  IF Len(vals) < 8 \/ Len(recent) < 3 \/ Len(prior) < 3 THEN "insufficient"
      ELSE LET change2 == TwiceMedian(recent) - TwiceMedian(prior)
           IN  IF change2 * 100 >= 8 * TwiceMedian(prior) THEN "rising"
               ELSE IF change2 * 100 <= (0 - 8) * TwiceMedian(prior) THEN "falling"
               ELSE "flat"

\* C13: compute_trend returns insufficient with fewer than 8 usable prices or
\* a window of fewer than 3, and otherwise the label that compares the median
\* of the 5 newest prices with the median of the next up to 5 (rising from
\* +8%, falling from -8%, flat between); the example list is rising.
C13_TrendLabel ==
  TrendReturned =>
    /\ trend_out.trend = ClaimedTrend
    /\ trend_in = <<10000, 10500, 11000, 10800, 11200, 6000, 5800, 5500, 6200, 5900>>
         => trend_out.trend = "rising"

(***************************************************************************)
(* The estimate of one item (price_suggestions.py lines 160-224) on its    *)
(* own: the target grade, whether the book is slabbed, and the item's      *)
(* deduplicated sold comps.                                                *)
(***************************************************************************)
EstGrades == <<None, 80, 85, 90, 92>>
EstCompanies == <<"CGC", NoneStr>>
EstPrices == <<40003, 100000>>

\* comps whose price is not above zero
EstUnpriced ==
  << [grade_numeric |-> None, grade_company |-> NoneStr, price |-> 0],
     [grade_numeric |-> 85, grade_company |-> "CGC", price |-> 0] >>

EstPricedKinds == Len(EstGrades) * Len(EstCompanies) * Len(EstPrices)

\* the k-th kind of comp: every grade with every grading house and price,
\* then the unpriced comps
EstComp(k) ==
  LET n == k - 1
  IN  IF k > EstPricedKinds THEN EstUnpriced[k - EstPricedKinds]
      ELSE
      [ grade_numeric |-> EstGrades[(n \div (Len(EstCompanies) * Len(EstPrices))) + 1],
        grade_company |-> EstCompanies[((n \div Len(EstPrices)) % Len(EstCompanies)) + 1],
        price         |-> EstPrices[(n % Len(EstPrices)) + 1] ]

EstKinds == 1..(EstPricedKinds + Len(EstUnpriced))

\* comp lists of up to n rows, one list for each multiset of kinds
RECURSIVE EstKindLists(_)
EstKindLists(n) ==
  IF n = 0 THEN {<<>>}
  ELSE LET shorter == EstKindLists(n - 1)
           longest == {x \in shorter : Len(x) = n - 1}
       IN  shorter
           \cup UNION { {Append(l, k) : k \in {j \in EstKinds : n = 1 \/ j >= l[n - 1]}} :
                         l \in longest }

EstTargets ==
  { [target_grade |-> 85, is_slabbed_book |-> TRUE],
    [target_grade |-> 90, is_slabbed_book |-> TRUE],
    [target_grade |-> 90, is_slabbed_book |-> FALSE],
    [target_grade |-> None, is_slabbed_book |-> FALSE] }

\* line 141-142: the loop goes on only when a positive price exists
EstInputs ==
  { [target_grade |-> t.target_grade, is_slabbed_book |-> t.is_slabbed_book,
     rows |-> [i \in 1..Len(l) |-> EstComp(l[i])]] :
      t \in EstTargets,
      l \in {x \in EstKindLists(MaxEstRows) : \E i \in 1..Len(x) : EstComp(x[i]).price > 0} }

EstimateInit ==
  /\ StoreEmpty
  /\ tie_order = "rowid_asc"
  /\ QueueIdle
  /\ DecisionIdle
  /\ RunIdle /\ IngestIdle
  /\ TrendIdle /\ MatchIdle /\ ScoreIdle
  /\ est_in \in EstInputs
  /\ est_out = <<>>

\* lines 160-224
Estimate ==
  /\ est_out = <<>>
  /\ LET rows == est_in.rows
         prices == PricesOf(SelectSeq(rows, PositivePrice))
     IN  est_out' =
           [ trend_at_grade |-> grade_trend_price(rows, est_in.target_grade,
                                                  est_in.is_slabbed_book),
             base |-> base_market_of(rows, prices, est_in.target_grade,
                                     est_in.is_slabbed_book),
             universal_market |-> universal_market_of(rows, prices, est_in.target_grade,
                                                      est_in.is_slabbed_book) ]
  /\ UNCHANGED est_in
  /\ UNCHANGED store_vars
  /\ UNCHANGED <<queue_vars, queue_ds, decision_vars>>
  /\ UNCHANGED <<run_vars, trend_vars, match_vars, score_vars, ingest_vars>>

EstimateNext == Estimate

SpecEstimate == EstimateInit /\ [][EstimateNext]_vars

(***************************************************************************)
(* C14                                                                     *)
(***************************************************************************)
Estimated == est_out /= <<>>

\* the comps of the estimated item that have a grade and a positive price
EstUsable ==
  SelectSeq(est_in.rows, LAMBDA r : r.grade_numeric /= None /\ r.price /= None /\ r.price > 0)

\* the positive sold prices of the estimated item
EstPositivePrices ==
  LET pos == SelectSeq(est_in.rows, LAMBDA r : r.price /= None /\ r.price > 0)
  IN  [i \in 1..Len(pos) |-> pos[i].price]

\* C14: for every comp set with fewer than 2 usable points (a grade and a
\* price above zero) grade_trend_price returns None, and the value the
\* aggregator then starts from is the unweighted median of all the positive
\* sold prices of the item (to the cent) instead of a fitted value.
C14_InsufficientFallsBackToMedian ==
  (Estimated /\ Len(EstUsable) < 2) =>
    /\ est_out.trend_at_grade = None
    /\ AbsDiff(2 * est_out.base, TwiceMedian(EstPositivePrices)) <= 1

\* an item with a target grade, one usable point and ungraded sales beside it
C14_Witness ==
  /\ Estimated
  /\ est_in.target_grade /= None
  /\ Len(EstUsable) = 1
  /\ Len(EstPositivePrices) >= 2
  /\ est_out.trend_at_grade = None
  /\ est_out.base /= EstUsable[1].price

(***************************************************************************)
(* C15                                                                     *)
(***************************************************************************)
\* the certified comps of the estimated item with a grade and a positive price
EstCertified ==
  SelectSeq(est_in.rows, LAMBDA r : /\ r.grade_company \in {"CGC", "CBCS"}
                                    /\ r.grade_numeric /= None
                                    /\ r.price /= None /\ r.price > 0)

EstSlabbedTarget == est_in.is_slabbed_book /\ est_in.target_grade /= None

\* the estimate is at least the price at grade g on the line through comp b
\* (at or below g) and comp a (at or above g), to the cent; two comps of one
\* grade give the price of b
AtLeastInterpolated(u, g, b, a) ==
  LET span == a.grade_numeric - b.grade_numeric
  IN  IF span = 0 THEN u >= b.price
      ELSE 2 * span * u + span
             >= 2 * (b.price * span + (g - b.grade_numeric) * (a.price - b.price))

\* C15: for a slabbed item with target grade g that has certified sold
\* comps at a grade at or below g and at a grade at or above g, the
\* universal market price is at least the price interpolated linearly at g
\* between a nearest certified comp at or below g and a nearest one at or
\* above g.
C15_InterpolationFloor ==
  LET g == est_in.target_grade
      cert == EstCertified
      below == {i \in 1..Len(cert) : cert[i].grade_numeric <= g}
      above == {i \in 1..Len(cert) : cert[i].grade_numeric >= g}
      nearest_below == {i \in below : \A j \in below : cert[j].grade_numeric <= cert[i].grade_numeric}
      nearest_above == {i \in above : \A j \in above : cert[j].grade_numeric >= cert[i].grade_numeric}
  IN  (Estimated /\ EstSlabbedTarget /\ below /= {} /\ above /= {}) =>
        \E i \in nearest_below, j \in nearest_above :
          AtLeastInterpolated(est_out.universal_market, g, cert[i], cert[j])

(***************************************************************************)
(* C16                                                                     *)
(***************************************************************************)
\* the sold comps with a positive price graded 0.1 to 0.4 above the target
EstHigherComps ==
  SelectSeq(est_in.rows, LAMBDA r : /\ r.grade_numeric /= None
                                    /\ r.grade_numeric >= est_in.target_grade + 1
                                    /\ r.grade_numeric <= est_in.target_grade + 4
                                    /\ r.price /= None /\ r.price > 0)

\* C16: for an item with target grade 9.0 or more, the universal market
\* price is at least 80% (to the cent) of the price of every sold comp
\* with a positive price whose grade is between target + 0.1 and
\* target + 0.4.
C16_HighGradeFloor ==
  (Estimated /\ est_in.target_grade /= None /\ est_in.target_grade >= 90) =>
    \A i \in 1..Len(EstHigherComps) :
      100 * est_out.universal_market + 50 >= 80 * EstHigherComps[i].price

\* a 9.0 target whose fitted value lies below 80% of a 9.2 sale
C16_Witness ==
  /\ Estimated
  /\ est_in.target_grade = 90
  /\ Len(EstHigherComps) > 0
  /\ est_out.trend_at_grade /= None
  /\ est_out.universal_market > est_out.base
  /\ \E i \in 1..Len(EstHigherComps) :
       AbsDiff(100 * est_out.universal_market, 80 * EstHigherComps[i].price) <= 50

(***************************************************************************)
(* C17                                                                     *)
(***************************************************************************)
\* the raw sold comps (no grading house) with a positive price graded
\* within 0.5 of the target
EstRawNear ==
  SelectSeq(est_in.rows, LAMBDA r : /\ r.grade_company = NoneStr
                                    /\ r.grade_numeric /= None
                                    /\ AbsDiff(r.grade_numeric, est_in.target_grade) <= 5
                                    /\ r.price /= None /\ r.price > 0)

\* C17: for a slabbed item with a target grade, the universal market price
\* is at least 105% (to the cent) of the price of every raw sold comp
\* graded within 0.5 of the target grade.
C17_RawFloor ==
  (Estimated /\ EstSlabbedTarget) =>
    \A i \in 1..Len(EstRawNear) :
      100 * est_out.universal_market + 50 >= 105 * EstRawNear[i].price

\* a slabbed item whose certified comps put it below a raw sale of its grade band
C17_Witness ==
  /\ Estimated
  /\ EstSlabbedTarget
  /\ Len(EstRawNear) > 0
  /\ Len(EstCertified) > 0
  /\ est_out.universal_market > est_out.base
  /\ \E i \in 1..Len(EstRawNear) :
       AbsDiff(100 * est_out.universal_market, 105 * EstRawNear[i].price) <= 50

(***************************************************************************)
(* similarity_score on its own (fetch_ebay_comps.py lines 210-229).        *)
(***************************************************************************)
\* grades in tenths: none, or 0.5 to 10.0 in half points
ScoreGrades == {None} \cup {5 * k : k \in 1..20} \cup {92, 94, 96, 98}

ScoreInputs ==
  [ target_grade : ScoreGrades,
    target_is_slabbed : {0, 1},
    comp : [ grade_numeric : ScoreGrades, grade_company : {NoneStr, "CGC"},
             is_raw : {0, 1}, is_signed : {0, 1} ] ]

ScoreInit ==
  /\ StoreEmpty
  /\ tie_order = "rowid_asc"
  /\ QueueIdle
  /\ DecisionIdle
  /\ RunIdle /\ IngestIdle
  /\ TrendIdle /\ EstIdle /\ MatchIdle
  /\ score_in \in ScoreInputs
  /\ score_out = <<>>

\* lines 210-229
SimilarityScore ==
  /\ score_out = <<>>
  /\ score_out' = <<similarity_score(score_in.target_grade, score_in.target_is_slabbed,
                                     score_in.comp)>>
  /\ UNCHANGED score_in
  /\ UNCHANGED store_vars
  /\ UNCHANGED <<queue_vars, queue_ds, decision_vars>>
  /\ UNCHANGED <<run_vars, trend_vars, est_vars, match_vars, ingest_vars>>

ScoreNext == SimilarityScore

SpecScore == ScoreInit /\ [][ScoreNext]_vars

(***************************************************************************)
(* C19                                                                     *)
(***************************************************************************)
Scored == score_out /= <<>>

\* the score without a grade-proximity contribution, in hundredths: the
\* slab agreement and the signed penalty, clamped
ScoreOfOtherTerms ==
  LET comp == score_in.comp
      comp_slabbed == IF comp.grade_company /= NoneStr THEN 1 ELSE 0
      slab == IF score_in.target_is_slabbed = comp_slabbed THEN 25
              ELSE IF score_in.target_is_slabbed = 1 /\ comp.is_raw = 1 THEN 0 - 10
              ELSE 0
      signed == IF comp.is_signed = 1 THEN 0 - 10 ELSE 0
  IN  Max2(0, Min2(100, slab + signed))

\* the grades of the target and of the comp are both known and differ by
\* 3 points or more
ScoreGradesFarApart ==
  /\ score_in.target_grade /= None
  /\ score_in.comp.grade_numeric /= None
  /\ AbsDiff(score_in.target_grade, score_in.comp.grade_numeric) >= 30

\* C19: similarity_score returns a value in [0, 1], and the grade-proximity
\* contribution is zero when the grades differ by 3 points or more: the
\* score is then the score of the other terms alone.
C19_ScoreRangeAndGradeWindow ==
  Scored =>
    /\ score_out[1] >= 0 /\ score_out[1] <= 100
    /\ ScoreGradesFarApart => score_out[1] = ScoreOfOtherTerms

(***************************************************************************)
(* scripts/fetch_ebay_comps.py: normalize and strict_title_issue_match.    *)
(* Titles are strings; a regular expression is matched by following the    *)
(* positions (number of characters consumed) it can reach.                 *)
(***************************************************************************)
LowerLetters == "abcdefghijklmnopqrstuvwxyz"
UpperLetters == "ABCDEFGHIJKLMNOPQRSTUVWXYZ"

Ch(s, i) == SubSeq(s, i, i)

Letters == {Ch(LowerLetters, k) : k \in 1..26}
Digits == {"0", "1", "2", "3", "4", "5", "6", "7", "8", "9"}
Space == {" "}
\* \w
WordChars == Letters \cup {Ch(UpperLetters, k) : k \in 1..26} \cup Digits \cup {"_"}

\* str.lower()
RECURSIVE lower(_)
lower(s) ==
  IF Len(s) = 0 THEN ""
  ELSE LET c == Ch(s, 1)
           ks == {k \in 1..26 : Ch(UpperLetters, k) = c}
       IN  (IF ks = {} THEN c ELSE Ch(LowerLetters, CHOOSE k \in ks : TRUE)) \o lower(Tail(s))

\* line 60: characters outside [a-z0-9 ] become blanks, runs of blanks
\* collapse to one, leading and trailing blanks are stripped
RECURSIVE normalize_from(_, _)
normalize_from(s, out) ==
  IF Len(s) = 0
    THEN IF Len(out) > 0 /\ Ch(out, Len(out)) = " " THEN SubSeq(out, 1, Len(out) - 1) ELSE out
  ELSE LET c == Ch(s, 1)
       IN  IF c \in Letters \cup Digits THEN normalize_from(Tail(s), out \o c)
           ELSE IF Len(out) > 0 /\ Ch(out, Len(out)) /= " "
                  THEN normalize_from(Tail(s), out \o " ")
                ELSE normalize_from(Tail(s), out)

normalize(s) == normalize_from(lower(s), "")

\* every position of s
Positions(s) == 0..Len(s)

IsWordAt(s, i) == i >= 1 /\ i <= Len(s) /\ Ch(s, i) \in WordChars

\* \b
Bound(s, P) == {p \in P : IsWordAt(s, p) /= IsWordAt(s, p + 1)}

\* a literal
Lit(s, P, lit) ==
  {p + Len(lit) : p \in {q \in P : q + Len(lit) <= Len(s)
                                   /\ SubSeq(s, q + 1, q + Len(lit)) = lit}}

\* class*
Many(s, P, class) ==
  {q \in Positions(s) : \E p \in P : p <= q /\ \A k \in (p + 1)..q : Ch(s, k) \in class}

\* class+
Some(s, P, class) ==
  {q \in Positions(s) : \E p \in P : p < q /\ \A k \in (p + 1)..q : Ch(s, k) \in class}

\* words separated by \s*
RECURSIVE LitWords(_, _, _)
LitWords(s, P, words) ==
  IF Len(words) = 0 THEN P
  ELSE LET first == Lit(s, P, Head(words))
       IN  IF Len(words) = 1 THEN first
           ELSE LitWords(s, Many(s, first, Space), Tail(words))

\* line 45, searched without regard to case
ExcludedPhrases ==
  { <<"reprint">>, <<"variant">>, <<"facsimile">>, <<"toy", "biz">>, <<"promo">>,
    <<"marvel", "legends">>, <<"lot", "of">>, <<"set", "of">>, <<"blank", "cover">>,
    <<"homage">>, <<"incentive">>, <<"ratio", "variant">>, <<"marvel", "team", "up">> }

EXCLUDE_TITLE_RE(title) ==
  LET s == lower(title)
  IN  \E ph \in ExcludedPhrases :
        Bound(s, LitWords(s, Bound(s, Positions(s)), ph)) /= {}

\* line 47
ANNUAL_RE(title) ==
  LET s == lower(title)
  IN  Bound(s, Lit(s, Bound(s, Positions(s)), "annual")) /= {}

\* line 46
VOL_RE(title) ==
  LET s == lower(title)
      vol == Lit(s, Bound(s, Positions(s)), "vol")
      dot == vol \cup Lit(s, vol, ".")
  IN  Bound(s, Some(s, Many(s, dot, Space), Digits)) /= {}

DigitVal(c) == CHOOSE d \in 0..9 : Ch("0123456789", d + 1) = c

\* line 44: YEAR_RE.findall
YEAR_RE(title) ==
  LET starts == {p \in Bound(title, Positions(title)) :
                   /\ p + 4 <= Len(title)
                   /\ SubSeq(title, p + 1, p + 2) \in {"19", "20"}
                   /\ Ch(title, p + 3) \in Digits
                   /\ Ch(title, p + 4) \in Digits
                   /\ Bound(title, {p + 4}) /= {}}
  IN  { (IF SubSeq(title, p + 1, p + 2) = "19" THEN 1900 ELSE 2000)
          + 10 * DigitVal(Ch(title, p + 3)) + DigitVal(Ch(title, p + 4)) : p \in starts }

\* lines 49-52
SERIES_ALIASES(tnorm) ==
  IF tnorm = "mighty thor" THEN {"mighty thor", "thor", "journey into mystery"}
  ELSE IF tnorm = "x men" THEN {"x men", "the x men"}
  ELSE {}

\* lines 54-56
SERIES_EXCLUDES(tnorm) ==
  IF tnorm = "x men"
    THEN {"astonishing x men", "uncanny x men", "all new x men", "x men legacy",
          "ultimate x men", "new x men"}
  ELSE {}

\* v in cnorm
Contains(s, v) == Lit(s, Positions(s), v) /= {}

\* re.sub(r"\bword\b", "", s)
RECURSIVE remove_word(_, _, _)
remove_word(s, word, i) ==
  IF i > Len(s) THEN ""
  ELSE IF Bound(s, Lit(s, Bound(s, {i - 1}), word)) /= {}
         THEN remove_word(s, word, i + Len(word))
       ELSE Ch(s, i) \o remove_word(s, word, i + 1)

\* lines 118-123
title_variants(tnorm) ==
  IF tnorm = "" THEN {}
  ELSE {normalize(v) : v \in {w \in {tnorm} \cup SERIES_ALIASES(tnorm)
                                      \cup {remove_word(tnorm, "the", 1),
                                            remove_word(tnorm, "mighty", 1)} :
                                normalize(w) /= ""}}

\* (?:\s+\w+){0,n}
RECURSIVE UpToWords(_, _, _)
UpToWords(s, P, n) ==
  IF n = 0 THEN P
  ELSE P \cup UpToWords(s, Some(s, Some(s, P, Space), WordChars), n - 1)

\* (?:#|no\.?|issue)?
IssueMark(s, P) ==
  LET no == Lit(s, P, "no")
  IN  P \cup Lit(s, P, "#") \cup no \cup Lit(s, no, ".") \cup Lit(s, P, "issue")

\* line 146: the series phrase, up to six words, then the issue
pair_series_first(cnorm, tv, issue) ==
  LET series == Bound(cnorm, Lit(cnorm, Bound(cnorm, Positions(cnorm)), tv))
      gap == Many(cnorm, UpToWords(cnorm, series, 6), Space)
      mark == Many(cnorm, IssueMark(cnorm, gap), Space)
  IN  Bound(cnorm, Lit(cnorm, mark, issue)) /= {}

\* line 147: the issue, up to six words, then the series phrase
pair_issue_first(cnorm, tv, issue) ==
  LET mark == Many(cnorm, IssueMark(cnorm, Bound(cnorm, Positions(cnorm))), Space)
      iss == Bound(cnorm, Lit(cnorm, mark, issue))
      gap == Bound(cnorm, Many(cnorm, UpToWords(cnorm, iss, 6), Space))
  IN  Bound(cnorm, Lit(cnorm, gap, tv)) /= {}

\* issue.isdigit() of the stripped issue
IsDigits(issue) == Len(issue) > 0 /\ \A k \in 1..Len(issue) : Ch(issue, k) \in Digits

\* lines 105-106
excluded_title(comp_title) == EXCLUDE_TITLE_RE(comp_title)

\* lines 109-112
annual_mismatch(target_title, comp_title) == ANNUAL_RE(target_title) /= ANNUAL_RE(comp_title)

\* lines 114-115
volume_era(target_year, comp_title) ==
  VOL_RE(comp_title) /\ target_year /= None /\ target_year /= 0 /\ target_year < 1985

\* lines 125-126
series_missing(tnorm, cnorm) ==
  title_variants(tnorm) /= {} /\ ~ \E v \in title_variants(tnorm) : Contains(cnorm, v)

\* lines 128-130
series_excluded(tnorm, cnorm) == \E bad \in SERIES_EXCLUDES(tnorm) : Contains(cnorm, normalize(bad))

\* lines 135-136: no occurrence of the issue between characters that are not
\* letters or digits
issue_token_missing(cnorm, issue) ==
  ~ \E p \in Lit(cnorm, Positions(cnorm), issue) :
      /\ ~ (p - Len(issue) >= 1 /\ Ch(cnorm, p - Len(issue)) \in Letters \cup Digits)
      /\ ~ (p + 1 <= Len(cnorm) /\ Ch(cnorm, p + 1) \in Letters \cup Digits)

\* one character of the class
OneOf(s, P, class) == {p + 1 : p \in {q \in P : q + 1 <= Len(s) /\ Ch(s, q + 1) \in class}}

\* lines 137-138: the issue and one letter as a token
issue_letter_suffixed(cnorm, issue) ==
  LET number == Lit(cnorm, Bound(cnorm, Positions(cnorm)), issue)
  IN  Bound(cnorm, OneOf(cnorm, number, Letters)) /= {}

\* lines 142-154
pair_missing(tnorm, cnorm, issue) ==
  /\ title_variants(tnorm) /= {}
  /\ ~ \E tv \in title_variants(tnorm) :
         pair_series_first(cnorm, tv, issue) \/ pair_issue_first(cnorm, tv, issue)

\* lines 157-160
modern_year(target_year, comp_title) ==
  /\ target_year /= None /\ target_year /= 0 /\ target_year < 1985
  /\ \E y \in YEAR_RE(comp_title) : y >= 2000

\* lines 157-166
xmen_year(tnorm, target_year, comp_title) ==
  /\ target_year /= None /\ target_year /= 0 /\ target_year < 1985
  /\ tnorm = "x men"
  /\ \/ YEAR_RE(comp_title) = {}
     \/ \A y \in YEAR_RE(comp_title) : y > 1985

\* strict_title_issue_match without the checks of the issue number
strict_title_issue_match_mut(target_title, target_issue, target_year, comp_title) ==
  LET tnorm == normalize(target_title)
      cnorm == normalize(comp_title)
  IN  /\ ~ excluded_title(comp_title)
      /\ ~ annual_mismatch(target_title, comp_title)
      /\ ~ volume_era(target_year, comp_title)
      /\ ~ series_missing(tnorm, cnorm)
      /\ ~ series_excluded(tnorm, cnorm)
      /\ ~ modern_year(target_year, comp_title)
      /\ ~ xmen_year(tnorm, target_year, comp_title)

\* lines 101-168
strict_title_issue_match(target_title, target_issue, target_year, comp_title) ==
  LET tnorm == normalize(target_title)
      cnorm == normalize(comp_title)
  IN  /\ ~ excluded_title(comp_title)
      /\ ~ annual_mismatch(target_title, comp_title)
      /\ ~ volume_era(target_year, comp_title)
      /\ ~ series_missing(tnorm, cnorm)
      /\ ~ series_excluded(tnorm, cnorm)
      /\ IsDigits(target_issue) =>
           /\ ~ issue_token_missing(cnorm, target_issue)
           /\ ~ issue_letter_suffixed(cnorm, target_issue)
           /\ ~ pair_missing(tnorm, cnorm, target_issue)
      /\ ~ modern_year(target_year, comp_title)
      /\ ~ xmen_year(tnorm, target_year, comp_title)

(***************************************************************************)
(* One call of strict_title_issue_match: an item of the inventory and the  *)
(* title of a listing the marketplace returned.                            *)
(***************************************************************************)
MatchTargets ==
  { [target_title |-> "Amazing Spider-Man", target_issue |-> "20", target_year |-> 1965],
    [target_title |-> "The Amazing Spider-Man", target_issue |-> "20", target_year |-> None],
    [target_title |-> "X-Men", target_issue |-> "20", target_year |-> 1966],
    [target_title |-> "Amazing Spider-Man", target_issue |-> "20A", target_year |-> 1965],
    [target_title |-> "Amazing Spider-Man", target_issue |-> "8", target_year |-> 1964] }

CompSeries == {"Amazing Spider-Man", "AMAZING SPIDER-MAN", "Spider-Man", "Uncanny X-Men", "X-Men"}

CompJoints == {" ", " #", " No. ", " Annual ", " key 1st app of Kraven and the Scorpion "}

CompIssues == {"20", "20A", "20b", "20-A", "120", "2"}

CompTails == {"", " CGC 9.8", " (1965)", " (2015)", " variant", " Vol. 2", " 20 cents"}

CompTitles ==
  {sr \o j \o i \o t : sr \in CompSeries, j \in CompJoints, i \in CompIssues, t \in CompTails}

MatchInputs ==
  { [target_title |-> t.target_title, target_issue |-> t.target_issue,
     target_year |-> t.target_year, comp_title |-> c] : t \in MatchTargets, c \in CompTitles }

MatchInit ==
  /\ StoreEmpty
  /\ tie_order = "rowid_asc"
  /\ QueueIdle
  /\ DecisionIdle
  /\ RunIdle /\ IngestIdle
  /\ TrendIdle /\ EstIdle /\ ScoreIdle
  /\ match_in \in MatchInputs
  /\ match_out = <<>>

\* lines 101-168
StrictTitleIssueMatch ==
  /\ match_out = <<>>
  /\ match_out' = <<strict_title_issue_match(match_in.target_title, match_in.target_issue,
                                             match_in.target_year, match_in.comp_title)>>
  /\ UNCHANGED match_in
  /\ UNCHANGED store_vars
  /\ UNCHANGED <<queue_vars, queue_ds, decision_vars>>
  /\ UNCHANGED <<run_vars, trend_vars, est_vars, score_vars, ingest_vars>>

MatchNext == StrictTitleIssueMatch

SpecMatch == MatchInit /\ [][MatchNext]_vars

(***************************************************************************)
(* C18                                                                     *)
(***************************************************************************)
MatchReturned == match_out /= <<>>

\* the places of the candidate title where the target's issue number is
\* written: its digits, not inside a longer word or number; each place is
\* the position of the last digit
IssueNumberPlaces ==
  LET s == lower(match_in.comp_title)
      n == Len(match_in.target_issue)
  IN  {p \in n..Len(s) :
         /\ SubSeq(s, p - n + 1, p) = match_in.target_issue
         /\ ~ (p - n >= 1 /\ Ch(s, p - n) \in Letters \cup Digits)
         /\ ~ (p + 1 <= Len(s) /\ Ch(s, p + 1) \in Digits)}

\* the issue number is in the candidate title, and everywhere it is
\* followed by a letter
IssueOnlyLetterSuffixed ==
  /\ IssueNumberPlaces /= {}
  /\ \A p \in IssueNumberPlaces :
       p + 1 <= Len(match_in.comp_title) /\ Ch(lower(match_in.comp_title), p + 1) \in Letters

\* the candidate holds the series name followed by the issue number as a
\* token of its own
SeriesWithIssueToken ==
  Contains(" " \o normalize(match_in.comp_title) \o " ",
           " " \o normalize(match_in.target_title) \o " " \o match_in.target_issue \o " ")

\* a filter that does not look for the issue number as a token of its own
\* rejects the candidate
OtherFilterRejects ==
  LET tnorm == normalize(match_in.target_title)
      cnorm == normalize(match_in.comp_title)
  IN  \/ excluded_title(match_in.comp_title)
      \/ annual_mismatch(match_in.target_title, match_in.comp_title)
      \/ volume_era(match_in.target_year, match_in.comp_title)
      \/ series_excluded(tnorm, cnorm)
      \/ issue_letter_suffixed(cnorm, match_in.target_issue)
      \/ modern_year(match_in.target_year, match_in.comp_title)
      \/ xmen_year(tnorm, match_in.target_year, match_in.comp_title)

\* C18: for a numeric target issue, strict_title_issue_match rejects every
\* candidate title in which the issue number appears only with a letter
\* suffix, and admits a candidate that holds the series name with the exact
\* issue number as a standalone token when no other filter rejects it.
C18_IssueTokenMatch ==
  (MatchReturned /\ IsDigits(match_in.target_issue)) =>
    /\ IssueOnlyLetterSuffixed => ~ match_out[1]
    /\ (SeriesWithIssueToken /\ ~ OtherFilterRejects) => match_out[1]

\* a candidate with the series name and the issue as a token, next to
\* further text, is admitted
C18_Witness ==
  /\ MatchReturned
  /\ IsDigits(match_in.target_issue)
  /\ SeriesWithIssueToken
  /\ ~ OtherFilterRejects
  /\ ~ IssueOnlyLetterSuffixed
  /\ YEAR_RE(match_in.comp_title) /= {}
  /\ match_out[1]

(***************************************************************************)
(* One ingestion run: fetch_ebay_comps.upsert_api_comps (--min-score 0.45) *)
(* and rebuild_batch.run (--min-score 0.25) walk the targets and pass      *)
(* every listing the marketplace returns for a query through the same      *)
(* steps.                                                                  *)
(***************************************************************************)
\* item summaries of the Browse API: the same certified sale with and
\* without its URL, in capitals, and under its URL with another title; a
\* variant cover; a listing without a price
IngestListings ==
  { [title |-> "Amazing Spider-Man 20 CGC 8.5", url |-> "https://ebay.example/itm/1",
     price |-> 40000, sold_date |-> 2,
     grade_numeric |-> 85, grade_company |-> "CGC", is_raw |-> 0, is_signed |-> 0],
    [title |-> "Amazing Spider-Man 20 CGC 8.5", url |-> NoneStr,
     price |-> 40000, sold_date |-> 2,
     grade_numeric |-> 85, grade_company |-> "CGC", is_raw |-> 0, is_signed |-> 0],
    [title |-> "AMAZING SPIDER-MAN 20 CGC 8.5", url |-> NoneStr,
     price |-> 40000, sold_date |-> 2,
     grade_numeric |-> 85, grade_company |-> "CGC", is_raw |-> 0, is_signed |-> 0],
    [title |-> "Amazing Spider-Man #20 CGC 8.5 1965", url |-> "https://ebay.example/itm/1",
     price |-> 40000, sold_date |-> 2,
     grade_numeric |-> 85, grade_company |-> "CGC", is_raw |-> 0, is_signed |-> 0],
    [title |-> "Amazing Spider-Man 20 variant", url |-> "https://ebay.example/itm/2",
     price |-> 2000, sold_date |-> 3,
     grade_numeric |-> None, grade_company |-> NoneStr, is_raw |-> 0, is_signed |-> 0],
    [title |-> "Amazing Spider-Man 20 CGC 9.0", url |-> "https://ebay.example/itm/3",
     price |-> None, sold_date |-> 3,
     grade_numeric |-> 90, grade_company |-> "CGC", is_raw |-> 0, is_signed |-> 0] }

\* str.strip()
RECURSIVE strip(_)
strip(s) ==
  IF Len(s) = 0 THEN s
  ELSE IF Ch(s, 1) = " " THEN strip(Tail(s))
  ELSE IF Ch(s, Len(s)) = " " THEN strip(SubSeq(s, 1, Len(s) - 1))
  ELSE s

\* dedupe_key with the title as it is written
store_dedupe_key_mut(listing_type, item) ==
  LET url == IF item.url = NoneStr THEN "" ELSE strip(item.url)
  IN  <<listing_type, IF url /= "" THEN url ELSE strip(item.title)>>

\* fetch_ebay_comps.py line 393, rebuild_batch.py line 45
store_dedupe_key(listing_type, item) ==
  LET url == IF item.url = NoneStr THEN "" ELSE strip(item.url)
  IN  <<listing_type, IF url /= "" THEN url ELSE lower(strip(item.title))>>

\* the listings strict_title_issue_match admits for each item (the
\* inventory carries no year)
admitted_listings ==
  [i \in ItemIds |->
     {item \in IngestListings :
        strict_title_issue_match(comics[i].title, comics[i].issue, None, item.title)}]

\* the dedupe key of each listing under each kind
dedupe_keys ==
  [listing_type \in {"sold", "active"} |->
     [item \in IngestListings |-> store_dedupe_key(listing_type, item)]]

\* the listing kinds a run fetches for a query
ListingKinds(args) == IF args.include_active THEN {"sold", "active"} ELSE {"sold"}

IngestInit ==
  /\ StoreEmpty
  /\ tie_order = "rowid_asc"
  /\ agg_runs = 0
  /\ QueueIdle
  /\ DecisionIdle
  /\ RunIdle /\ CallsIdle
  /\ IngestIdle

\* get_targets() and the connection of the run
IngestStart ==
  \E min_score \in MinScores, include_active \in BOOLEAN :
    /\ ing_args.min_score = None
    /\ ing_args' = [min_score |-> min_score, include_active |-> include_active]
    /\ ing_pc' = "fetching"
    /\ ing_todo' = {i \in ItemIds : is_target(comics[i])}
    /\ UNCHANGED <<ing_seen, ing_target, ing_stored, ing_count>>
    /\ UNCHANGED store_vars
    /\ UNCHANGED <<queue_vars, queue_ds, decision_vars, run_vars, call_vars>>

\* for t in targets: seen_keys = set()
IngestTarget ==
  \E t \in ing_todo :
    /\ ing_pc = "fetching"
    /\ ing_target' = t
    /\ ing_seen' = {}
    /\ ing_todo' = ing_todo \ {t}
    /\ UNCHANGED <<ing_pc, ing_stored, ing_args, ing_count>>
    /\ UNCHANGED store_vars
    /\ UNCHANGED <<queue_vars, queue_ds, decision_vars, run_vars, call_vars>>

\* store_item (fetch_ebay_comps.py 387-462) and the loop body of
\* rebuild_batch.run (41-80) for one listing a query returned
IngestItem ==
  \E item \in IngestListings, listing_type \in ListingKinds(ing_args) :
    LET t == comics[ing_target]
        key == dedupe_keys[listing_type][item]
        score == similarity_score(t.grade_numeric, IF t.cgc_cert /= "" THEN 1 ELSE 0, item)
        matched == item \in admitted_listings[ing_target]
        stored == matched /\ key \notin ing_seen /\ score >= ing_args.min_score
                  /\ item.price /= None
        id == Len(market_comps) + 1
        sold_date == IF listing_type = "sold" THEN item.sold_date ELSE None
    IN  /\ ing_pc = "fetching"
        /\ ing_target /= 0
        /\ ing_count < MaxFetched
        /\ ing_count' = ing_count + 1
        /\ ing_seen' = IF matched THEN ing_seen \cup {key} ELSE ing_seen
        /\ IF stored
             THEN /\ market_comps' =
                       Append(market_comps,
                              comp_row(id, t, [item EXCEPT !.sold_date = sold_date]
                                                 @@ [listing_type |-> listing_type], score))
                  /\ ing_stored' = ing_stored \cup
                       {[id |-> id, comic_id |-> t.id, listing_type |-> listing_type,
                         url |-> item.url, title |-> item.title]}
                  /\ tie_order' \in TieOrders
                  /\ agg_runs' = 0
             ELSE UNCHANGED <<market_comps, ing_stored, tie_order, agg_runs>>
        /\ UNCHANGED <<price_suggestions, evidence>>
        /\ UNCHANGED <<ing_pc, ing_target, ing_args, ing_todo>>
        /\ UNCHANGED <<queue_vars, queue_ds, decision_vars, run_vars, call_vars>>

\* conn.commit() after the last target
IngestCommit ==
  /\ ing_pc = "fetching"
  /\ ing_target /= 0
  /\ ing_todo = {}
  /\ ing_pc' = "done"
  /\ UNCHANGED <<ing_seen, ing_target, ing_stored, ing_args, ing_todo, ing_count>>
  /\ UNCHANGED store_vars
  /\ UNCHANGED <<queue_vars, queue_ds, decision_vars, run_vars, call_vars>>

IngestNext == IngestStart \/ IngestTarget \/ IngestItem \/ IngestCommit

SpecIngest == IngestInit /\ [][IngestNext]_vars

(***************************************************************************)
(* C20                                                                     *)
(***************************************************************************)
\* two rows stored for one item under one listing kind are the same listing:
\* they have the same URL, or neither has a URL and their lower-cased titles
\* are the same
SameListing(r1, r2) ==
  /\ r1.comic_id = r2.comic_id
  /\ r1.listing_type = r2.listing_type
  /\ \/ r1.url /= NoneStr /\ r1.url = r2.url
     \/ r1.url = NoneStr /\ r2.url = NoneStr /\ lower(r1.title) = lower(r2.title)

\* C20: within one ingestion run, no two comps stored for an item share the
\* listing kind and the URL, or the listing kind and the lower-cased title
\* when they have no URL, however often the marketplace returns a listing.
C20_NoDuplicateComps ==
  \A r1, r2 \in ing_stored : r1.id /= r2.id => ~ SameListing(r1, r2)

\* a listing without URL was stored and then returned again for the same
\* item, under the same kind, in other capitals, and skipped
C20_Witness ==
  /\ ing_pc = "done"
  /\ \E r \in ing_stored :
       /\ r.url = NoneStr
       /\ \E t \in {x.title : x \in IngestListings} :
            /\ t /= r.title
            /\ \E x \in IngestListings :
                 x.title = t /\ x.url = NoneStr /\ dedupe_keys[r.listing_type][x] \in ing_seen
            /\ ~ \E r2 \in ing_stored : r2.title = t /\ r2.comic_id = r.comic_id
            /\ r.comic_id = ing_target
  /\ Cardinality(ing_stored) < ing_count

(***************************************************************************)
(* C21                                                                     *)
(***************************************************************************)
\* the EvidenceLink rows of item i
EvidenceOf(i) == {e \in evidence : e.comic_id = i}

\* the sold comps of item i the aggregator's query selects
SoldCompsOf(i) ==
  {r \in TableRows(market_comps) :
     r.comic_id = i /\ r.listing_type = "sold" /\ r.price /= None}

CompById(id) == CHOOSE r \in TableRows(market_comps) : r.id = id

\* two comps are copies of one sale: same normalized title, price and date
SameSale(a, b) ==
  norm_title(a.title) = norm_title(b.title) /\ a.price = b.price /\ a.sold_date = b.sold_date

\* C21: after a run of the aggregator, the EvidenceLink rows of an item with
\* usable sold comps are exactly its deduplicated sold comps: every row
\* links a sold comp of the item, no comp and no sale is linked twice, every
\* sold comp of the item is linked or is a copy of a linked one, the ranks
\* are 1..n, and a lower rank has the higher relevance score or, on equal
\* scores, a sold date that is not older.
C21_EvidenceIsDedupedRanked ==
  agg_runs >= 1 =>
    \A i \in ItemIds :
      HasUsableSold(i) =>
        LET ev == EvidenceOf(i)
            n == Cardinality(ev)
        IN  /\ \A e \in ev : \E r \in SoldCompsOf(i) : r.id = e.comp_id
            /\ {e.rank : e \in ev} = 1..n
            /\ \A e1, e2 \in ev :
                 e1 /= e2 =>
                   /\ e1.comp_id /= e2.comp_id
                   /\ ~ SameSale(CompById(e1.comp_id), CompById(e2.comp_id))
            /\ \A r \in SoldCompsOf(i) : \E e \in ev : SameSale(r, CompById(e.comp_id))
            /\ \A e1, e2 \in ev :
                 e1.rank < e2.rank =>
                   LET a == CompById(e1.comp_id)
                       b == CompById(e2.comp_id)
                   IN  \/ coalesce0(a.match_score) > coalesce0(b.match_score)
                       \/ /\ coalesce0(a.match_score) = coalesce0(b.match_score)
                          /\ a.sold_date >= b.sold_date

\* an item with three sold comps, two of them copies of one sale: two links,
\* the comp with the higher score first
C21_Witness ==
  /\ agg_runs >= 1
  /\ \E i \in ItemIds :
       /\ Cardinality(SoldCompsOf(i)) = 3
       /\ Cardinality(EvidenceOf(i)) = 2
       /\ \E e1, e2 \in EvidenceOf(i) :
            /\ e1.rank = 1 /\ e2.rank = 2
            /\ coalesce0(CompById(e1.comp_id).match_score)
                 > coalesce0(CompById(e2.comp_id).match_score)

\* ---------------------------------------------------------------------------
\* C22: sold comps with a price of zero or below

\* the sold comps of item i whose price is above 0, as line 141 keeps them
PositiveSoldOf(i) == {r \in SoldCompsOf(i) : r.price > 0}

\* C22: a sold comp whose price is zero or negative is not part of an item's
\* evidence set: after a run of the aggregator no EvidenceLink row links such
\* a comp, and basis_count counts only the comps with a price above 0.
C22_NoEvidenceForUnpricedSale ==
  agg_runs >= 1 =>
    /\ \A e \in evidence : CompById(e.comp_id).price > 0
    /\ \A p \in price_suggestions :
         p.basis_count <= Cardinality(PositiveSoldOf(p.comic_id))

(***************************************************************************)
(* The decision engine and the two estimators called on their own, one     *)
(* call per behaviour.                                                     *)
(***************************************************************************)
\* the assumptions of AssumptionSets and a fee of 100% with free shipping,
\* for which net_raw is exactly 0
TotalityAssumptions ==
  AssumptionSets
    \cup {[DEFAULTS EXCEPT !.platform_fee_rate = 100, !.avg_ship_cost = 0]}

CallsInit ==
  \/ /\ StoreEmpty
     /\ tie_order = "rowid_asc"
     /\ QueueIdle
     /\ RunIdle /\ CallsIdle /\ IngestIdle
     /\ row \in Rows
     /\ assumptions \in TotalityAssumptions
     /\ decision = [action |-> NoneStr]
     /\ dpc = "ready"
     /\ page_out = NoPages
  \/ TrendInit
  \/ EstimateInit

CallTrend == DecisionIdle /\ EstIdle /\ ComputeTrend

CallEstimate == est_in /= <<>> /\ Estimate

CallsNext == Decide \/ CallTrend \/ CallEstimate

SpecCalls == CallsInit /\ [][CallsNext]_vars

\* the actions decision_for_row can return
ActionVocabulary ==
  {"already_sold", "list_now_slabbed", "slab_candidate", "sell_raw_now",
   "get_community_grade", "needs_comps"}

\* the labels compute_trend can return
TrendVocabulary == {"rising", "falling", "flat", "insufficient"}

\* C23: decision_for_row, dynamic_ask_multiplier, compute_trend and
\* grade_trend_price return a defined result for every input: an action of the
\* fixed vocabulary with numeric (or None) fields beside it, a multiplier
\* between 1.03 and 1.18, a trend label with a percentage or the insufficient
\* sentinel, a positive price or None; no call ends without a result, whether
\* the market price, grade, confidence, active count or active anchor is
\* present or absent, and also when net_raw is 0 or negative and the fee rate
\* is negative or above 1.
C23_CallsAreTotal ==
  /\ dynamic_ask_multiplier(row) \in 103..118
  /\ Decided =>
       /\ "action" \in DOMAIN decision
       /\ decision.action \in ActionVocabulary
       /\ \A k \in DOMAIN decision \ {"action", "channel_hint"} : decision[k] \in Int
  /\ TrendReturned =>
       /\ trend_out.trend \in TrendVocabulary
       /\ trend_out.trend_pct \in Int
       /\ trend_out.trend = "insufficient" <=> trend_out.trend_pct = NoPct
  /\ Estimated =>
       est_out.trend_at_grade = None \/ est_out.trend_at_grade > 0

\* a raw item with a market price under a fee of 100% and free shipping, so
\* that net_raw is exactly 0, has been decided
C23_Witness ==
  /\ Decided
  /\ row.status /= "sold"
  /\ row.grade_class = "raw_community"
  /\ row.market_price /= None
  /\ assumptions.platform_fee_rate = 100
  /\ net_raw100(row, assumptions) = 0
  /\ decision.action = "sell_raw_now"
  /\ decision.slab_lift_pct = 0

\* ---------------------------------------------------------------------------
\* C24: scaling the comp prices

\* the factors the prices are multiplied by; the fixed-point logarithm of the
\* model is exact in the octave, so the factors are powers of two
ScaleFactors == {2, 4}

\* the comps with every price multiplied by k
ScaledRows(rows, k) ==
  [i \in 1..Len(rows) |->
     [rows[i] EXCEPT !.price = IF @ = None THEN None ELSE @ * k]]

\* grade_trend_price of the estimated item with every comp price multiplied by k
ScaledTrend(k) ==
  grade_trend_price(ScaledRows(est_in.rows, k), est_in.target_grade, est_in.is_slabbed_book)

\* C24: multiplying every comp price by the same factor k multiplies the
\* result of grade_trend_price by k (to the cent of the unscaled result), for
\* every comp set with at least 2 usable points and every target grade; where
\* the function returns None it returns None for the scaled prices too.
C24_TrendScalesWithPrices ==
  (Estimated /\ Len(EstUsable) >= 2) =>
    \A k \in ScaleFactors :
      IF est_out.trend_at_grade = None THEN ScaledTrend(k) = None
      ELSE /\ ScaledTrend(k) /= None
           /\ AbsDiff(ScaledTrend(k), k * est_out.trend_at_grade) < k

\* a fit through comps of different grades and prices, one of them below $500
C24_Witness ==
  /\ Estimated
  /\ est_out.trend_at_grade /= None
  /\ \E i, j \in 1..Len(EstUsable) :
       /\ EstUsable[i].grade_numeric /= EstUsable[j].grade_numeric
       /\ EstUsable[i].price < 50000
       /\ EstUsable[j].price >= 50000
  /\ est_out.trend_at_grade > 40003
  /\ est_out.trend_at_grade < 100000
  /\ ScaledTrend(2) > 80006

\* ---------------------------------------------------------------------------
\* C25: the order of the price ladder

\* C25: in every decision for an unsold item with a known positive market
\* price, slabbed or raw, whatever the confidence, the active count and the
\* active anchor, floor_price <= market price <= target_price <= anchor_price.
C25_PriceLadderOrdered ==
  (Decided /\ Unsold /\ MarketKnown /\ row.market_price > 0) =>
    /\ decision.floor_price <= row.market_price
    /\ row.market_price <= decision.target_price
    /\ decision.target_price <= decision.anchor_price

\* a slabbed high-confidence item between $300 and $500 with 8 active listings
\* and an active anchor below the model anchor: the ask is 1.12 x market, the
\* anchor 1.2 x market
C25_Witness ==
  /\ Decided /\ Unsold
  /\ row.grade_class = "slabbed"
  /\ row.confidence = "high"
  /\ row.market_price = 30000
  /\ row.active_count = 8
  /\ row.active_anchor_price = 5000
  /\ decision.floor_price = 27600
  /\ decision.target_price = 33600
  /\ decision.anchor_price = 36000

(***************************************************************************)
(* app/main.py: the listing page and the evidence page of one item, beside *)
(* the decision the queue computes for it.                                 *)
(***************************************************************************)
\* lines 1010-1018 and 1025: the dict of the listing page's SELECT, which has
\* no status column, so r.get("status") is None
listing_row(r) == [r EXCEPT !.status = NoneStr]

\* lines 583-593 and 680-681: the dict of the evidence endpoint's SELECT, which
\* has no status, no grade_class and no active_count column
evidence_row(r) ==
  [r EXCEPT !.status = NoneStr, !.grade_class = NoneStr, !.active_count = None]

PagesInit ==
  /\ StoreEmpty
  /\ tie_order = "rowid_asc"
  /\ QueueIdle
  /\ RunIdle /\ CallsIdle /\ IngestIdle
  /\ row \in Rows
  /\ assumptions = DEFAULTS
  /\ decision = [action |-> NoneStr]
  /\ dpc = "ready"
  /\ page_out = NoPages

\* lines 1025-1026
ListingPage ==
  /\ page_out.listing = <<>>
  /\ page_out' = [page_out EXCEPT !.listing = decision_for_row(listing_row(row), DEFAULTS)]
  /\ UNCHANGED <<row, assumptions, decision, dpc>>
  /\ UNCHANGED store_vars
  /\ UNCHANGED queue_vars
  /\ UNCHANGED aux_vars

\* lines 680-682
EvidencePage ==
  /\ page_out.evidence = <<>>
  /\ page_out' = [page_out EXCEPT !.evidence = decision_for_row(evidence_row(row), DEFAULTS)]
  /\ UNCHANGED <<row, assumptions, decision, dpc>>
  /\ UNCHANGED store_vars
  /\ UNCHANGED queue_vars
  /\ UNCHANGED aux_vars

PagesNext == Decide \/ ListingPage \/ EvidencePage

SpecPages == PagesInit /\ [][PagesNext]_vars

PriceKeys == {"target_price", "floor_price", "anchor_price"}

\* two decisions with the same action and the same target, floor and anchor prices
SameDecision(d, e) ==
  /\ d.action = e.action
  /\ \A k \in PriceKeys :
       /\ k \in DOMAIN d <=> k \in DOMAIN e
       /\ k \in DOMAIN d => d[k] = e[k]

\* C26: for every item, the action and the target, floor and anchor prices
\* computed for its listing page and for its evidence page equal those
\* decision_for_row yields for the item's full record (status, grade class,
\* confidence, active count, active anchor, market price) under the default
\* assumptions.
C26_PagesAgreeWithFullRecord ==
  Decided =>
    /\ page_out.listing /= <<>> => SameDecision(page_out.listing, decision)
    /\ page_out.evidence /= <<>> => SameDecision(page_out.evidence, decision)

(***************************************************************************)
(* A web request reading while one aggregator batch runs.  The batch       *)
(* writes inside one transaction (implicit BEGIN at its first write,       *)
(* commit at line 285); the journal is WAL (db.py:16), so a SELECT of      *)
(* another connection reads the last committed tables.  The request's      *)
(* connection opens no transaction: each of its SELECTs reads the tables   *)
(* as committed when that statement runs.                                  *)
(***************************************************************************)
ReadersInit ==
  /\ StoreIngested
  /\ QueueIdle
  /\ DecisionIdle
  /\ CallsIdle /\ IngestIdle
  /\ run_pc = [p \in Writers |-> IF p = 1 THEN "loop" ELSE "done"]
  /\ run_todo = [p \in Writers |-> IF p = 1 THEN ItemIds ELSE {}]
  /\ run_db = [p \in Writers |-> [ps |-> {}, ev |-> {}]]
  /\ write_lock = 0
  /\ reader = NoReader

\* main.py:487-495: the decision queue's one SELECT over comics LEFT JOIN
\* price_suggestions (its second SELECT reads market_comps only)
QueueSelect ==
  /\ reader.pc = "idle"
  /\ reader' = [ pc |-> "done", kind |-> "queue", item |-> 0,
                 valuation |-> price_suggestions, links |-> {},
                 start |-> [ps |-> price_suggestions, ev |-> evidence] ]
  /\ UNCHANGED <<run_pc, run_todo, run_db, write_lock>>
  /\ UNCHANGED store_vars
  /\ UNCHANGED <<queue_vars, queue_ds, decision_vars, call_vars, ingest_vars>>

\* main.py:583-593: the evidence request's first SELECT, the item with its
\* price_suggestions row
EvidenceSelectComic ==
  \E i \in ItemIds :
    /\ reader.pc = "idle"
    /\ reader' = [ pc |-> "comic_read", kind |-> "evidence", item |-> i,
                   valuation |-> {v \in price_suggestions : v.comic_id = i},
                   links |-> {},
                   start |-> [ps |-> price_suggestions, ev |-> evidence] ]
    /\ UNCHANGED <<run_pc, run_todo, run_db, write_lock>>
    /\ UNCHANGED store_vars
    /\ UNCHANGED <<queue_vars, queue_ds, decision_vars, call_vars, ingest_vars>>

\* main.py:599-621: its second SELECT, the item's price_suggestion_evidence rows
EvidenceSelectSold ==
  /\ reader.pc = "comic_read"
  /\ reader' = [reader EXCEPT !.pc = "done",
                              !.links = {e \in evidence : e.comic_id = reader.item}]
  /\ UNCHANGED <<run_pc, run_todo, run_db, write_lock>>
  /\ UNCHANGED store_vars
  /\ UNCHANGED <<queue_vars, queue_ds, decision_vars, call_vars, ingest_vars>>

ReadersNext ==
  RunItem(1) \/ RunCommit(1) \/ QueueSelect \/ EvidenceSelectComic \/ EvidenceSelectSold

SpecReaders == ReadersInit /\ [][ReadersNext]_vars

\* what a request of the reader's kind returns when all its SELECTs read the tables db
ViewOf(db) ==
  IF reader.kind = "queue" THEN [valuation |-> db.ps, links |-> {}]
  ELSE [ valuation |-> {v \in db.ps : v.comic_id = reader.item},
         links |-> {e \in db.ev : e.comic_id = reader.item} ]

\* C27: a decision-queue or evidence request running while an aggregator
\* batch is in progress never observes a partially rewritten item: what the
\* request returns is what it would return from the tables as they were
\* before the batch, or from the tables after the batch's single commit.
C27_RequestSeesOneState ==
  reader.pc = "done" =>
    \E db \in {reader.start, [ps |-> price_suggestions, ev |-> evidence]} :
      [valuation |-> reader.valuation, links |-> reader.links] = ViewOf(db)

\* ---------------------------------------------------------------------------
\* C28: who can be a slab candidate under the default assumptions

\* C28: under the default assumptions decision_for_row returns slab_candidate
\* only for raw (not slabbed) items that are not qualified, have a grade of
\* 8.0 or more and a market price above $984; for a qualified item and for
\* every grade below 8.0 (or unknown) the percentage-lift threshold of 20% is
\* not met, whatever the market price.
C28_SlabCandidatesUnderDefaults ==
  (Decided /\ Unsold /\ assumptions = DEFAULTS) =>
    /\ decision.action = "slab_candidate" =>
         /\ row.grade_class /= "slabbed"
         /\ row.qualified_flag = 0
         /\ row.grade_numeric /= None /\ row.grade_numeric >= 80
         /\ MarketKnown /\ row.market_price > 98400
    /\ (MarketKnown /\ (row.qualified_flag /= 0 \/ row.grade_numeric = None
                                                \/ row.grade_numeric < 80))
         => ~slab_lift_pct_ge(row, DEFAULTS, DEFAULTS.slab_lift_min_pct)

\* a raw unqualified 8.0 at $984.13 is a slab candidate: the lift of $168.24
\* is 20.0% of the raw net
C28_Witness ==
  /\ Decided /\ Unsold /\ assumptions = DEFAULTS
  /\ row.grade_class = "raw_community"
  /\ row.qualified_flag = 0
  /\ row.grade_numeric = 80
  /\ row.market_price = 98413
  /\ decision.action = "slab_candidate"
  /\ decision.slab_lift = 16824
  /\ decision.slab_lift_pct = 200

\* ---------------------------------------------------------------------------
\* C29: what the default minimum score lets through

\* --min-score of fetch_ebay_comps.py, in hundredths
DEFAULT_MIN_SCORE == 45

\* store_item, line 400, with the default minimum: the scored listing is kept
KeptAtDefault == Scored /\ ~(score_out[1] < DEFAULT_MIN_SCORE)

\* C29: with the default minimum score 0.45, every comp live ingestion keeps
\* has a parsed grade and belongs to an item with a known target grade, the
\* two grades differ by at most 2.25 points, and by at most 1.0 when the
\* comp's slabbed/raw status differs from the item's; a listing scored for an
\* item without a target grade is never kept.
C29_DefaultMinimumGradeWindow ==
  KeptAtDefault =>
    LET comp == score_in.comp
        comp_slabbed == IF comp.grade_company /= NoneStr THEN 1 ELSE 0
    IN  /\ score_in.target_grade /= None
        /\ comp.grade_numeric /= None
        /\ 10 * AbsDiff(score_in.target_grade, comp.grade_numeric) <= 225
        /\ score_in.target_is_slabbed /= comp_slabbed
             => AbsDiff(score_in.target_grade, comp.grade_numeric) <= 10

\* a certified 7.0 kept for a slabbed 9.2 (2.2 points apart, score 0.46)
C29_Witness ==
  /\ KeptAtDefault
  /\ score_in.target_grade = 92
  /\ score_in.target_is_slabbed = 1
  /\ score_in.comp.grade_numeric = 70
  /\ score_in.comp.grade_company = "CGC"
  /\ score_out[1] = 46

\* ---------------------------------------------------------------------------
\* C30: the issue number and the digits of a grade

\* the places of the candidate's original title where the target's issue
\* number stands alone: its digits with no letter or digit next to them, and
\* not joined by "." or "-" to a letter or digit on either side (as the 9 and
\* the 8 of "9.8" are); each place is the position of the last digit
IssueStandalonePlaces ==
  LET s == lower(match_in.comp_title)
      Joined(i) == i >= 1 /\ i <= Len(s) /\ Ch(s, i) \in Letters \cup Digits
      Joint(i) == i >= 1 /\ i <= Len(s) /\ Ch(s, i) \in {".", "-"}
      n == Len(match_in.target_issue)
  IN  {p \in IssueNumberPlaces :
         /\ ~ Joined(p + 1)
         /\ ~ (Joint(p - n) /\ Joined(p - n - 1))
         /\ ~ (Joint(p + 1) /\ Joined(p + 2))}

\* C30: whenever strict_title_issue_match admits a candidate for a numeric
\* target issue, the issue number occurs in the candidate's original title as
\* a standalone number, not merely as a digit of a decimal grade or of another
\* punctuation-separated token.
C30_AdmittedIssueStandsAlone ==
  (MatchReturned /\ IsDigits(match_in.target_issue) /\ match_out[1])
    => IssueStandalonePlaces /= {}

====
